---- MODULE Spec2Model ----
(***************************************************************************)
(* A model of the rust-asn1 BER/DER library: the TLV tree builder          *)
(* (src/src/asn1.rs), the public parse entry points (src/src/ber.rs,       *)
(* src/src/der.rs), the serializer (src/src/der.rs) and the INTEGER codec  *)
(* (src/src/asn1_types/integer.rs).                                        *)
(*                                                                         *)
(* Conventions.                                                            *)
(*  - A byte is a number in 0..255; a byte string is a sequence of bytes.  *)
(*  - A `Bytes` cursor is a view [lo, hi] onto the input buffer `buf`: it  *)
(*    holds buf[lo+1 .. hi].  split_to(n) hands out [lo, lo+n] and moves   *)
(*    lo forward, as bytes::Bytes does on its shared buffer.               *)
(*  - A u64 is eight bytes, most significant first (TLC's integers are 32  *)
(*    bits wide, the code's are 64): checked_mul / checked_add report the  *)
(*    overflow out of the 64 bits as the code's do.                        *)
(*  - Option<T> is a sequence of zero (None) or one (Some) element.        *)
(*  - An ASN1Error is [code, line]: the ErrorCode and the line!() of the   *)
(*    source that raised it; Ok is the absence of an error.                *)
(*  - usize is 64 bits wide, so `length as usize` keeps the length.        *)
(*                                                                         *)
(* Specifications.                                                         *)
(*  - Spec: an input is drawn and parsed once by ber::parse or der::parse. *)
(*  - SpecLen: a long-form length field is read by _read_asn1_length.      *)
(*  - SpecInt: an INTEGER is serialized, decoded and serialized again.     *)
(*  - SpecNodes: a SEQUENCE of many NULLs is parsed and its nodes counted. *)
(*  - SpecFixed: an INTEGER is decoded into a fixed-width integer type.    *)
(*  - SpecBool: a BOOLEAN is serialized, or drawn, and decoded.            *)
(*  - SpecBits: a primitive or constructed BIT STRING is decoded.          *)
(*  - SpecStr: a constructed OCTET STRING or character string is decoded.  *)
(*  - SpecTime: a primitive or constructed time is decoded.                *)
(*  - SpecOid: an OBJECT IDENTIFIER is made of components, listed,         *)
(*    serialized and decoded, or its content is drawn and decoded.         *)
(*  - SpecOpt: OPTIONAL fields are taken from the children of a SEQUENCE.  *)
(*  - SpecSeq: a node goes to the SEQUENCE helper with a builder.          *)
(*  - SpecSub: an encoding of a domain type is decoded under DER and BER.  *)
(*  - SpecUtc: a UTCTime value is serialized and decoded.                  *)
(*  - SpecCur: the cursors over the nodes of a parse result are read.      *)
(*  - SpecEnc: a length field is written and read where minimal encoding   *)
(*    is required.                                                         *)
(*  - SpecSer: nodes are appended to the buffer of a Serializer.           *)
(***************************************************************************)
EXTENDS Integers, Sequences, FiniteSets, TLC

VARIABLES src, data, phase, rules, result, value, out, target

vars == <<src, data, phase, rules, result, value, out, target>>

----------------------------------------------------------------------------
(* Errors                                                                  *)

Ok == [code |-> "Ok", line |-> 0]

ASN1Error(code, line) == [code |-> code, line |-> line]

UnexpectedFieldType == "UnexpectedFieldType"

InvalidASN1Object == "InvalidASN1Object"

InvalidASN1IntegerEncoding == "InvalidASN1IntegerEncoding"

TruncatedASN1Field == "TruncatedASN1Field"

UnsupportedFieldLength == "UnsupportedFieldLength"

TooFewOIDComponents == "TooFewOIDComponents"

ValueOutOfRange == "ValueOutOfRange"

InvalidStringRepresentation == "InvalidStringRepresentation"

----------------------------------------------------------------------------
(* Encoding rules                                                          *)

Basic == "Basic"

Distinguished == "Distinguished"

EncodingRules == {Basic, Distinguished}

\* A variant of the rule set in which DER admits the indefinite form too;
\* the property about the length octet 0x80 distinguishes it.
indefinite_always_allowed(r) == r \in {Basic, Distinguished}

indefinite_length_allowed(r) == r = Basic

non_minimal_encoded_lengths_allowed(r) == r = Basic

----------------------------------------------------------------------------
(* u64 arithmetic on eight big-endian bytes                                *)

U64Zero == <<0, 0, 0, 0, 0, 0, 0, 0>>

U64Max == <<255, 255, 255, 255, 255, 255, 255, 255>>

\* u64::from(n) for a number below 2^31.
U64From(n) ==
    <<0, 0, 0, 0, (n \div 16777216) % 256, (n \div 65536) % 256,
      (n \div 256) % 256, n % 256>>

\* The value fits the 31 bits of a TLC integer.
U64IsSmall(v) == v[1] = 0 /\ v[2] = 0 /\ v[3] = 0 /\ v[4] = 0 /\ v[5] < 128

U64ToNat(v) == ((v[5] * 256 + v[6]) * 256 + v[7]) * 256 + v[8]

\* v < n, for a number n below 2^31.
U64Less(v, n) == U64IsSmall(v) /\ U64ToNat(v) < n

\* n < v, for a number n below 2^31.
U64Greater(v, n) == ~U64IsSmall(v) \/ U64ToNat(v) > n

\* One column of the schoolbook product: byte b times m plus the carry of
\* the columns r to its right.
U64Column(b, m, r) ==
    [carry |-> (b * m + r.carry) \div 256,
     limbs |-> <<(b * m + r.carry) % 256>> \o r.limbs]

\* The columns i..8 of v * m + a (m, a below 2^15): their bytes, and the
\* carry out of column i.
RECURSIVE U64Columns(_, _, _, _)
U64Columns(v, m, a, i) ==
    IF i > 8 THEN [carry |-> a, limbs |-> <<>>]
    ELSE U64Column(v[i], m, U64Columns(v, m, a, i + 1))

\* A checked operation's Option<u64>: None when a carry leaves the 64 bits.
Checked(p) == IF p.carry > 0 THEN <<>> ELSE <<p.limbs>>

\* u64::checked_mul and u64::checked_add.
checked_mul(v, m) == Checked(U64Columns(v, m, 0, 1))

checked_add(v, a) == Checked(U64Columns(v, 1, a, 1))

\* Option::and_then(|v| v.checked_add(chunk)).
and_then_checked_add(opt, chunk) ==
    IF opt = <<>> THEN <<>> ELSE checked_add(opt[1], chunk)

\* `length += b as u64` after a checked_mul(256): the low byte is free.
wrapping_add(v, b) == U64Columns(v, 1, b, 1).limbs

\* The bytes i..8 of v >> 7, rem being what the bytes to the left leave.
RECURSIVE U64Shr7From(_, _, _)
U64Shr7From(v, i, rem) ==
    IF i > 8 THEN <<>>
    ELSE <<(rem * 256 + v[i]) \div 128>>
         \o U64Shr7From(v, i + 1, (rem * 256 + v[i]) % 128)

\* n >> 7.
U64Shr7(v) == U64Shr7From(v, 1, 0)

\* u8::leading_zeros of one byte.
LeadingZeros8(b) ==
    IF b >= 128 THEN 0 ELSE IF b >= 64 THEN 1 ELSE IF b >= 32 THEN 2
    ELSE IF b >= 16 THEN 3 ELSE IF b >= 8 THEN 4 ELSE IF b >= 4 THEN 5
    ELSE IF b >= 2 THEN 6 ELSE IF b >= 1 THEN 7 ELSE 8

\* u64::leading_zeros.
RECURSIVE LeadingZerosFrom(_, _)
LeadingZerosFrom(v, i) ==
    IF i > 8 THEN 0
    ELSE IF v[i] # 0 THEN LeadingZeros8(v[i])
    ELSE 8 + LeadingZerosFrom(v, i + 1)

leading_zeros(v) == LeadingZerosFrom(v, 1)

minimal_octet_len(v) ==
    IF v = U64Zero THEN 1
    ELSE LET significant_bits == 64 - leading_zeros(v)
         IN (significant_bits + 7) \div 8

----------------------------------------------------------------------------
(* Bytes cursors                                                           *)

View(lo, hi) == [lo |-> lo, hi |-> hi]

is_empty(d) == d.lo >= d.hi

len(d) == d.hi - d.lo

\* The bytes a view holds.
slice(buf, d) == SubSeq(buf, d.lo + 1, d.hi)

\* split_to(n): the first n bytes, and the cursor moved past them.
split_head(d, n) == View(d.lo, d.lo + n)

split_rest(d, n) == View(d.lo + n, d.hi)

None == <<>>

Some(x) == <<x>>

----------------------------------------------------------------------------
(* Identifiers                                                             *)

Universal == "Universal"

Application == "Application"

ContextSpecific == "ContextSpecific"

Private == "Private"

from_top_byte(top_byte) ==
    <<Universal, Application, ContextSpecific, Private>>[(top_byte \div 64) + 1]

top_byte_flags(tag_class) ==
    CASE tag_class = Universal -> 0
      [] tag_class = Application -> 64
      [] tag_class = ContextSpecific -> 128
      [] tag_class = Private -> 192

ASN1Identifier(tag_number, tag_class) ==
    [tag_number |-> tag_number, tag_class |-> tag_class]

from_short_identifier(short_identifier) ==
    ASN1Identifier(U64From(short_identifier % 32),
                   from_top_byte(short_identifier))

\* ASN1Identifier::BOOLEAN (BOOLEAN is the set of truth values in TLA+).
BOOLEAN_ID == ASN1Identifier(U64From(1), Universal)

INTEGER == ASN1Identifier(U64From(2), Universal)

SEQUENCE == ASN1Identifier(U64From(16), Universal)

----------------------------------------------------------------------------
(* Primitive readers                                                       *)

\* read_asn1_discipline_uint: the loop, one byte per iteration.  `sum` is
\* value.checked_mul(128).and_then(|v| v.checked_add(chunk)).
RECURSIVE read_uint_loop(_, _, _, _)
RECURSIVE read_uint_byte(_, _, _, _)
read_uint_byte(buf, d, read, sum) ==
    IF sum = <<>>
    THEN [err |-> ASN1Error(InvalidASN1Object, 310), value |-> U64Zero,
          read |-> read + 1, data |-> split_rest(d, 1)]
    ELSE IF buf[d.lo + 1] \div 128 = 0
    THEN [err |-> Ok, value |-> sum[1], read |-> read + 1,
          data |-> split_rest(d, 1)]
    ELSE read_uint_loop(buf, split_rest(d, 1), sum[1], read + 1)

read_uint_loop(buf, d, v, read) ==
    IF is_empty(d)
    THEN [err |-> ASN1Error(TruncatedASN1Field, 297), value |-> v,
          read |-> read, data |-> d]
    ELSE read_uint_byte(buf, d, read,
             and_then_checked_add(checked_mul(v, 128), buf[d.lo + 1] % 128))

read_asn1_discipline_uint(buf, d) == read_uint_loop(buf, d, U64Zero, 0)

Indefinite == [kind |-> "Indefinite", length |-> U64Zero]

Definite(n) == [kind |-> "Definite", length |-> n]

\* The `for &b in length_bytes.iter()` loop of _read_asn1_length over the
\* bytes buf[i+1 .. hi]: None on the overflow of checked_mul.
RECURSIVE length_loop(_, _, _, _)
RECURSIVE length_byte(_, _, _, _)
length_byte(buf, i, hi, mul) ==
    IF mul = <<>> THEN <<>>
    ELSE length_loop(buf, i + 1, hi, wrapping_add(mul[1], buf[i + 1]))

length_loop(buf, i, hi, length) ==
    IF i >= hi THEN <<length>>
    ELSE length_byte(buf, i, hi, checked_mul(length, 256))

\* A variant of the checks that refuses only the long form of a length
\* below 128, and not redundant length octets of a larger length; the
\* property about minimal lengths distinguishes it.
long_form_length_below_128(d2, field_length, minimal_encoding, length) ==
    IF length = <<>>
    THEN [err |-> ASN1Error(InvalidASN1Object, 259), length |-> Indefinite,
          data |-> d2]
    ELSE IF minimal_encoding /\ U64Less(length[1], 128)
    THEN [err |-> ASN1Error(UnsupportedFieldLength, 271),
          length |-> Indefinite, data |-> d2]
    ELSE [err |-> Ok, length |-> Definite(length[1]), data |-> d2]

\* The long form of _read_asn1_length once its field_length octets are read
\* into `length` (None on overflow); d2 is the cursor past them.
long_form_length(d2, field_length, minimal_encoding, length) ==
    IF length = <<>>
    THEN [err |-> ASN1Error(InvalidASN1Object, 259), length |-> Indefinite,
          data |-> d2]
    ELSE IF minimal_encoding /\ U64Less(length[1], 128)
    THEN [err |-> ASN1Error(UnsupportedFieldLength, 271),
          length |-> Indefinite, data |-> d2]
    ELSE IF minimal_encoding /\ field_length > minimal_octet_len(length[1])
    THEN [err |-> ASN1Error(UnsupportedFieldLength, 280),
          length |-> Indefinite, data |-> d2]
    ELSE [err |-> Ok, length |-> Definite(length[1]), data |-> d2]

_read_asn1_length(buf, d, minimal_encoding) ==
    IF is_empty(d)
    THEN [err |-> ASN1Error(TruncatedASN1Field, 232), length |-> Indefinite,
          data |-> d]
    ELSE LET first_byte == buf[d.lo + 1]
             d1 == split_rest(d, 1)
             field_length == first_byte % 128
         IN IF first_byte = 128
            THEN [err |-> Ok, length |-> Indefinite, data |-> d1]
            ELSE IF first_byte \div 128 = 1
            THEN IF len(d1) < field_length
                 THEN [err |-> ASN1Error(TruncatedASN1Field, 248),
                       length |-> Indefinite, data |-> d1]
                 ELSE long_form_length(split_rest(d1, field_length),
                          field_length, minimal_encoding,
                          length_loop(buf, d1.lo, d1.lo + field_length,
                                      U64Zero))
            ELSE [err |-> Ok, length |-> Definite(U64From(first_byte)),
                  data |-> d1]

----------------------------------------------------------------------------
(* The TLV tree builder                                                    *)
(*                                                                         *)
(* _parse_node calls itself for every child.  The model carries that       *)
(* recursion on an explicit stack: one frame for each constructed node     *)
(* whose children are being read, innermost last, so that the depth of a   *)
(* call is the height of the stack plus one.  A frame holds what the       *)
(* suspended call still needs: which loop it is in (`kind`), the end `hi`  *)
(* of the cursor its children are read from (check_sub for a definite      *)
(* length, the caller's own cursor for an indefinite one), the start `lo0` *)
(* of original_data and the node's index in the vector (last_index).       *)

MAXIMUM_NODE_DEPTH == 50

\* A variant of the depth test that already refuses depth 50; the depth
\* limit property distinguishes it from the code's test.
depth_reached(depth) == depth >= MAXIMUM_NODE_DEPTH

\* A variant without a limit of depth; the depths of a parse result
\* distinguish it.
depth_unlimited(depth) == FALSE

\* The test at the entry of _parse_node.
depth_exceeded(depth) == depth > MAXIMUM_NODE_DEPTH

ParserNode(identifier, depth, is_constructed, encoded_bytes, data_bytes) ==
    [identifier |-> identifier, depth |-> depth,
     is_constructed |-> is_constructed, encoded_bytes |-> encoded_bytes,
     data_bytes |-> data_bytes]

is_end_marker(node) ==
    /\ node.identifier.tag_class = Universal
    /\ node.identifier.tag_number = U64Zero
    /\ ~node.is_constructed
    /\ Len(node.encoded_bytes) = 2
    /\ node.encoded_bytes = <<0, 0>>

Frame(kind, hi, lo0, index) ==
    [kind |-> kind, hi |-> hi, lo0 |-> lo0, index |-> index]

\* The parse in progress: the error (Ok while there is none), the cursor
\* position, the node vector, the stack of suspended calls, whether a call
\* has just returned Ok(()) to the frame on top, and whether the outermost
\* call has returned or an error has been propagated by `?`.
Machine(err, pos, nodes, stack, returned, halted) ==
    [err |-> err, pos |-> pos, nodes |-> nodes, stack |-> stack,
     returned |-> returned, halted |-> halted]

Failed(m, code, line) ==
    Machine(ASN1Error(code, line), m.pos, <<>>, <<>>, FALSE, TRUE)

\* The end of the cursor the next call reads from.
cursor_hi(buf, m) ==
    IF m.stack = <<>> THEN Len(buf) ELSE m.stack[Len(m.stack)].hi

\* A variant of the long-form tag check that refuses the tag number 31 as
\* well; the property about long-form tags distinguishes it.
long_form_identifier_from_32(tag_class, r) ==
    IF r.err # Ok
    THEN [err |-> r.err, identifier |-> INTEGER, data |-> r.data]
    ELSE IF U64Less(r.value, 32)
    THEN [err |-> ASN1Error(InvalidASN1Object, 118),
          identifier |-> INTEGER, data |-> r.data]
    ELSE [err |-> Ok, identifier |-> ASN1Identifier(r.value, tag_class),
          data |-> r.data]

\* The long form of the identifier once its tag number is read into r.
long_form_identifier(tag_class, r) ==
    IF r.err # Ok
    THEN [err |-> r.err, identifier |-> INTEGER, data |-> r.data]
    ELSE IF U64Less(r.value, 31)
    THEN [err |-> ASN1Error(InvalidASN1Object, 118), identifier |-> INTEGER,
          data |-> r.data]
    ELSE [err |-> Ok, identifier |-> ASN1Identifier(r.value, tag_class),
          data |-> r.data]

\* The identifier octets of _parse_node: the identifier, or the error.
read_identifier(buf, d) ==
    LET raw_identifier == buf[d.lo + 1]
    IN IF raw_identifier % 32 = 31
       THEN long_form_identifier(from_top_byte(raw_identifier),
                read_asn1_discipline_uint(buf, split_rest(d, 1)))
       ELSE [err |-> Ok, identifier |-> from_short_identifier(raw_identifier),
             data |-> split_rest(d, 1)]

\* The Definite(length) branch of the match, up to the first child.
parse_definite(buf, m, original_data, d, depth, identifier, constructed, length) ==
    IF U64Greater(length, len(d))
    THEN Failed(m, TruncatedASN1Field, 136)
    ELSE LET length_usize == U64ToNat(length)
             sub_data == split_head(d, length_usize)
             rest == split_rest(d, length_usize)
             total_len == len(original_data) - len(rest)
             encoded_bytes == slice(buf, split_head(original_data, total_len))
         IN IF constructed
            THEN LET pushed == Append(m.nodes,
                         ParserNode(identifier, depth, TRUE, encoded_bytes, None))
                 IN Machine(Ok, sub_data.lo, pushed,
                        Append(m.stack,
                               Frame("definite", sub_data.hi, original_data.lo,
                                     Len(pushed))),
                        FALSE, FALSE)
            ELSE Machine(Ok, rest.lo,
                     Append(m.nodes, ParserNode(identifier, depth, FALSE,
                                encoded_bytes, Some(slice(buf, sub_data)))),
                     m.stack, TRUE, FALSE)

\* The Indefinite branch of the match, up to the first child.
parse_indefinite(buf, m, original_data, d, r, depth, identifier, constructed) ==
    IF ~indefinite_length_allowed(r)
    THEN Failed(m, UnsupportedFieldLength, 174)
    ELSE IF ~constructed
    THEN Failed(m, UnsupportedFieldLength, 182)
    ELSE LET pushed == Append(m.nodes,
                 ParserNode(identifier, depth, TRUE, <<>>, None))
             last_index == Len(pushed)
         IN Machine(Ok, d.lo, pushed,
                Append(m.stack,
                       Frame("indefinite", d.hi, original_data.lo, last_index)),
                FALSE, FALSE)

\* _parse_node from `match wide_length` on.
match_length(buf, r, m, original_data, depth, identifier, constructed, wide_length) ==
    IF wide_length.err # Ok
    THEN Failed(m, wide_length.err.code, wide_length.err.line)
    ELSE IF wide_length.length.kind = "Definite"
    THEN parse_definite(buf, m, original_data, wide_length.data, depth,
             identifier, constructed, wide_length.length.length)
    ELSE parse_indefinite(buf, m, original_data, wide_length.data, r, depth,
             identifier, constructed)

\* _parse_node from the read of the length on; id is the identifier read.
read_length(buf, r, m, original_data, depth, constructed, id) ==
    IF id.err # Ok THEN Failed(m, id.err.code, id.err.line)
    ELSE match_length(buf, r, m, original_data, depth, id.identifier,
             constructed,
             _read_asn1_length(buf, id.data,
                 ~non_minimal_encoded_lengths_allowed(r)))

\* A call of _parse_node on the cursor at m.pos: from its entry to the push
\* of its node.
parse_node_entry(buf, r, m) ==
    LET depth == Len(m.stack) + 1
        d == [lo |-> m.pos, hi |-> cursor_hi(buf, m)]
    IN IF depth_exceeded(depth)
       THEN Failed(m, InvalidASN1Object, 87)
       ELSE IF is_empty(d)
       THEN Failed(m, TruncatedASN1Field, 96)
       ELSE read_length(buf, r, m, d, depth,
                (buf[d.lo + 1] \div 32) % 2 = 1, read_identifier(buf, d))

\* The head of the loop of the frame on top: the `while` test of a definite
\* length, the `if data.is_empty()` test of an indefinite one, then the call
\* for the next child.  With no frame it is the call made by parse.
loop_head(buf, r, m) ==
    LET top == m.stack[Len(m.stack)]
    IN IF m.stack # <<>> /\ top.kind = "definite" /\ m.pos >= top.hi
       THEN Machine(Ok, top.hi, m.nodes, SubSeq(m.stack, 1, Len(m.stack) - 1),
                    TRUE, FALSE)
       ELSE IF m.stack # <<>> /\ top.kind = "indefinite" /\ m.pos >= top.hi
       THEN Failed(m, TruncatedASN1Field, 201)
       ELSE parse_node_entry(buf, r, m)

\* A child's call has returned Ok(()) to the frame on top: the end-marker
\* test of an indefinite length and the backfill of encoded_bytes.
child_returned(buf, m) ==
    LET top == m.stack[Len(m.stack)]
        found_end_marker ==
            /\ Len(m.nodes) > 0
            /\ is_end_marker(m.nodes[Len(m.nodes)])
        popped == SubSeq(m.nodes, 1, Len(m.nodes) - 1)
        encoded_bytes == slice(buf, View(top.lo0, m.pos))
    IN IF m.stack = <<>>
       THEN [m EXCEPT !.halted = TRUE]
       ELSE IF top.kind = "indefinite" /\ found_end_marker
       THEN Machine(Ok, m.pos,
                [popped EXCEPT ![top.index].encoded_bytes = encoded_bytes],
                SubSeq(m.stack, 1, Len(m.stack) - 1), TRUE, FALSE)
       ELSE [m EXCEPT !.returned = FALSE]

parse_step(buf, r, m) ==
    IF m.returned THEN child_returned(buf, m) ELSE loop_head(buf, r, m)

\* The number of halvings that cover n steps: 2^Fuel(n) >= n.
RECURSIVE Fuel(_)
Fuel(n) == IF n <= 1 THEN 0 ELSE 1 + Fuel((n + 1) \div 2)

\* Up to 2^fuel steps, folded in halves to keep the evaluation shallow.
RECURSIVE run(_, _, _, _)
run(fuel, buf, r, m) ==
    IF m.halted THEN m
    ELSE IF fuel = 0 THEN parse_step(buf, r, m)
    ELSE run(fuel - 1, buf, r, run(fuel - 1, buf, r, m))

\* The outermost call, _parse_node(&mut current_data, rules, 1, &mut nodes),
\* run to its return.  A call reads at least two bytes and is followed by at
\* most three steps of its callers, so 4 * len + 4 steps end every parse.
_parse_node(buf, r) ==
    run(Fuel(4 * Len(buf) + 4), buf, r,
        Machine(Ok, 0, <<>>, <<>>, FALSE, FALSE))

\* A variant of the end of ParseResult::parse that lets bytes remain; the
\* trailing data property distinguishes it from the code's.
trailing_ignored(buf, st) ==
    IF st.err # Ok THEN [err |-> st.err, nodes |-> <<>>]
    ELSE [err |-> Ok, nodes |-> st.nodes]

\* ParseResult::parse after its call of _parse_node has returned st: no
\* byte may remain.
trailing_check(buf, st) ==
    IF st.err # Ok THEN [err |-> st.err, nodes |-> <<>>]
    ELSE IF st.pos < Len(buf)
    THEN [err |-> ASN1Error(InvalidASN1Object, 69), nodes |-> <<>>]
    ELSE [err |-> Ok, nodes |-> st.nodes]

ParseResult_parse(buf, r) == trailing_check(buf, _parse_node(buf, r))

----------------------------------------------------------------------------
(* The public entry points                                                 *)

\* ber::parse: the root logical node is built from nodes[0]; the parse
\* result is kept whole, the children being an index range of it.
ber_parse(bytes) == ParseResult_parse(bytes, Basic)

\* der::parse after ParseResult::parse has returned res: the first node
\* must be the only root.
single_root(res) ==
    IF res.err # Ok THEN res
    ELSE IF Len(res.nodes) = 0
    THEN [err |-> ASN1Error(InvalidASN1Object, 52), nodes |-> <<>>]
    ELSE IF \E i \in 2..Len(res.nodes) :
                res.nodes[i].depth <= res.nodes[1].depth
    THEN [err |-> ASN1Error(InvalidASN1Object, 74), nodes |-> <<>>]
    ELSE res

der_parse(bytes) == single_root(ParseResult_parse(bytes, Distinguished))

----------------------------------------------------------------------------
(* Walking the flat node vector (indices from 1)                           *)

\* A variant that ends every subtree behind its first node; the nodes that
\* a cursor yields distinguish it.
subtree_end_next(nodes, index, end) == index + 1

\* ASN1NodeCollectionIterator::subtree_end_index: the first index after
\* index, below end, whose node is not deeper than nodes[index].
RECURSIVE subtree_search(_, _, _, _)
subtree_search(nodes, search_index, end, node_depth) ==
    IF search_index >= end THEN search_index
    ELSE IF nodes[search_index].depth <= node_depth THEN search_index
    ELSE subtree_search(nodes, search_index + 1, end, node_depth)

subtree_end_index(nodes, index, end) ==
    subtree_search(nodes, index + 1, end, nodes[index].depth)

----------------------------------------------------------------------------
(* The serializer's helpers                                                *)

\* The loop of write_asn1_discipline_uint that collects the 7-bit groups
\* of n, least significant first.
RECURSIVE low_groups(_)
low_groups(n) ==
    IF n = U64Zero THEN <<>>
    ELSE <<n[8] % 128>> \o low_groups(U64Shr7(n))

\* The second loop: the groups reversed, all but the last with bit 8 set.
continuation(bytes) ==
    <<>> \o [i \in 1..Len(bytes) |->
               bytes[Len(bytes) + 1 - i] + (IF i # Len(bytes) THEN 128 ELSE 0)]

write_asn1_discipline_uint(n) ==
    IF n = U64Zero THEN <<0>> ELSE continuation(low_groups(n))

\* ASN1Identifier::short_form.
short_form(identifier) ==
    IF U64Less(identifier.tag_number, 31)
    THEN Some(top_byte_flags(identifier.tag_class)
              + U64ToNat(identifier.tag_number))
    ELSE None

with_short(short, identifier, constructed) ==
    IF short # None
    THEN <<short[1] + (IF constructed THEN 32 ELSE 0)>>
    ELSE <<31 + (IF constructed THEN 32 ELSE 0)
              + top_byte_flags(identifier.tag_class)>>
         \o write_asn1_discipline_uint(identifier.tag_number)

write_identifier(identifier, constructed) ==
    with_short(short_form(identifier), identifier, constructed)

\* The loop of encode_length: the bytes of l, least significant first.
RECURSIVE length_bytes(_)
length_bytes(l) ==
    IF l = 0 THEN <<>> ELSE <<l % 256>> \o length_bytes(l \div 256)

with_indicator(bytes) ==
    <<128 + Len(bytes)>>
    \o [i \in 1..Len(bytes) |-> bytes[Len(bytes) + 1 - i]]

\* A variant that writes every length in the long form; the canonical
\* form of a length distinguishes it.
encode_length_long(n) == with_indicator(length_bytes(n))

encode_length(n) ==
    IF n <= 127 THEN <<n>> ELSE with_indicator(length_bytes(n))

\* Serializer::append_node on a buffer.
append_node(buffer, identifier, constructed, content) ==
    buffer \o write_identifier(identifier, constructed)
           \o encode_length(Len(content)) \o content

----------------------------------------------------------------------------
(* Logical nodes and the INTEGER codec                                     *)

Primitive(bytes) == [kind |-> "Primitive", bytes |-> bytes]

\* Content::Constructed: the collection shares the node vector and holds
\* the index range of the descendants and the depth of the parent.
Constructed(nodes, first, end, depth) ==
    [kind |-> "Constructed", nodes |-> nodes, range |-> <<first, end>>,
     depth |-> depth]

ASN1Node(identifier, content, encoded_bytes) ==
    [identifier |-> identifier, content |-> content,
     encoded_bytes |-> encoded_bytes]

\* clone_node, which ber::parse and der::parse repeat for the root node.
clone_node(nodes, index, end_index) ==
    IF nodes[index].is_constructed
    THEN ASN1Node(nodes[index].identifier,
                  Constructed(nodes, index + 1, end_index, nodes[index].depth),
                  nodes[index].encoded_bytes)
    ELSE ASN1Node(nodes[index].identifier,
                  Primitive(nodes[index].data_bytes[1]),
                  nodes[index].encoded_bytes)

\* The logical root node that ber::parse and der::parse return.
root_node(res) ==
    IF res.err # Ok THEN [err |-> res.err, node |-> <<>>]
    ELSE [err |-> Ok, node |-> <<clone_node(res.nodes, 1, Len(res.nodes) + 1)>>]

RECURSIVE Pow2(_)
Pow2(n) == IF n = 0 THEN 1 ELSE 2 * Pow2(n - 1)

RECURSIVE Pow256(_)
Pow256(n) == IF n = 0 THEN 1 ELSE 256 * Pow256(n - 1)

\* The big-endian value of bytes as an unsigned number.
RECURSIVE unsigned_be(_, _)
unsigned_be(bytes, i) ==
    IF i > Len(bytes) THEN 0
    ELSE bytes[i] * Pow256(Len(bytes) - i) + unsigned_be(bytes, i + 1)

\* BigInt::from_signed_bytes_be of a non-empty byte string: the first
\* octet counts as a signed one.
from_signed_bytes_be(bytes) ==
    (IF bytes[1] >= 128 THEN bytes[1] - 256 ELSE bytes[1])
        * Pow256(Len(bytes) - 1)
    + unsigned_be(bytes, 2)

\* The fewest octets, n at least, that hold v in two's complement.
RECURSIVE signed_len(_, _)
signed_len(v, n) ==
    IF (v \div Pow256(n - 1)) \in -128..127 THEN n ELSE signed_len(v, n + 1)

\* The n octets of v in two's complement, big-endian.
signed_bytes(v, n) == [i \in 1..n |-> (v \div Pow256(n - i)) % 256]

\* A variant of the value's octets that leaves out the octet 0x00 which
\* keeps a positive value's sign, as the unsigned octets of the value
\* would; the canonical encoding property distinguishes it.
to_bytes_be(v) ==
    signed_bytes(v, IF v > 0 /\ v \div Pow256(signed_len(v, 1) - 1) = 0
                    THEN signed_len(v, 1) - 1
                    ELSE signed_len(v, 1))

\* BigInt::to_signed_bytes_be: the fewest octets, one for zero.
to_signed_bytes_be(v) == signed_bytes(v, signed_len(v, 1))

\* ASN1Integer::serialize with a fresh Serializer: append_primitive_node
\* with the INTEGER identifier.
serialize_integer(v) == append_node(<<>>, INTEGER, FALSE, to_signed_bytes_be(v))

IntegerResult(err, v) == [err |-> err, value |-> v]

\* A variant of the DER check of the first two content octets that knows
\* the redundant 0x00 only; the property about minimal INTEGER contents
\* distinguishes it.
redundant_zero_only(bytes) ==
    IF Len(bytes) > 1 /\ bytes[1] = 0 /\ bytes[2] < 128
    THEN ASN1Error(InvalidASN1IntegerEncoding, 70)
    ELSE Ok

\* The DER check of the first two content octets.
redundant_leading(bytes) ==
    IF Len(bytes) > 1 /\ bytes[1] = 0 /\ bytes[2] < 128
    THEN ASN1Error(InvalidASN1IntegerEncoding, 70)
    ELSE IF Len(bytes) > 1 /\ bytes[1] = 255 /\ bytes[2] >= 128
    THEN ASN1Error(InvalidASN1IntegerEncoding, 79)
    ELSE Ok

integer_from_bytes(bytes, minimal) ==
    IF minimal # Ok THEN IntegerResult(minimal, 0)
    ELSE IntegerResult(Ok, from_signed_bytes_be(bytes))

\* ASN1Integer::from_der_node_with_identifier.
from_der_node_with_identifier(node, identifier) ==
    IF node.identifier # identifier
    THEN IntegerResult(ASN1Error(UnexpectedFieldType, 47), 0)
    ELSE IF node.content.kind # "Primitive"
    THEN IntegerResult(ASN1Error(UnexpectedFieldType, 88), 0)
    ELSE IF node.content.bytes = <<>>
    THEN IntegerResult(ASN1Error(InvalidASN1Object, 53), 0)
    ELSE integer_from_bytes(node.content.bytes,
                            redundant_leading(node.content.bytes))

\* ASN1Integer::from_ber_node_with_identifier.
from_ber_node_with_identifier(node, identifier) ==
    IF node.identifier # identifier
    THEN IntegerResult(ASN1Error(UnexpectedFieldType, 110), 0)
    ELSE IF node.content.kind # "Primitive"
    THEN IntegerResult(ASN1Error(UnexpectedFieldType, 122), 0)
    ELSE IF node.content.bytes = <<>>
    THEN IntegerResult(ASN1Error(InvalidASN1Object, 116), 0)
    ELSE IntegerResult(Ok, from_signed_bytes_be(node.content.bytes))

\* ASN1Integer::from_der_node on what der::parse returned.
integer_from_der_node(parsed) ==
    IF parsed.err # Ok THEN IntegerResult(parsed.err, 0)
    ELSE from_der_node_with_identifier(parsed.node[1], INTEGER)

\* ASN1Integer::from_ber_node on what ber::parse returned.
integer_from_ber_node(parsed) ==
    IF parsed.err # Ok THEN IntegerResult(parsed.err, 0)
    ELSE from_ber_node_with_identifier(parsed.node[1], INTEGER)

----------------------------------------------------------------------------
(* The typed decoders' common ground                                       *)

\* Result<T, ASN1Error> of a typed decoder.
Decoded(err, v) == [err |-> err, value |-> v]

\* The byte strings of at most n octets drawn from the set octets.
RECURSIVE OctetStrings(_, _)
OctetStrings(octets, n) ==
    IF n = 0 THEN {<<>>}
    ELSE OctetStrings(octets, n - 1)
         \cup {<<x>> \o c : x \in octets,
                             c \in {t \in OctetStrings(octets, n - 1) :
                                      Len(t) = n - 1}}

\* A TLV of one identifier octet, the shortest length and the content.
Tlv(id, content) == <<id>> \o encode_length(Len(content)) \o content

----------------------------------------------------------------------------
(* BOOLEAN                                                                 *)

\* A variant of the DER decoder that takes every non-zero octet for true,
\* as the BER decoder does; the BOOLEAN property distinguishes it.
boolean_from_der_node_lax(node) ==
    IF node.identifier # BOOLEAN_ID
    THEN Decoded(ASN1Error(UnexpectedFieldType, 47), FALSE)
    ELSE IF node.content.kind # "Primitive"
    THEN Decoded(ASN1Error(UnexpectedFieldType, 62), FALSE)
    ELSE IF Len(node.content.bytes) # 1
    THEN Decoded(ASN1Error(InvalidASN1Object, 53), FALSE)
    ELSE Decoded(Ok, node.content.bytes[1] # 0)

\* ASN1Boolean::from_der_node: from_der_node_with_identifier with the
\* BOOLEAN identifier.
boolean_from_der_node(node) ==
    IF node.identifier # BOOLEAN_ID
    THEN Decoded(ASN1Error(UnexpectedFieldType, 47), FALSE)
    ELSE IF node.content.kind # "Primitive"
    THEN Decoded(ASN1Error(UnexpectedFieldType, 62), FALSE)
    ELSE IF Len(node.content.bytes) # 1
    THEN Decoded(ASN1Error(InvalidASN1Object, 53), FALSE)
    ELSE IF node.content.bytes[1] = 0 THEN Decoded(Ok, FALSE)
    ELSE IF node.content.bytes[1] = 255 THEN Decoded(Ok, TRUE)
    ELSE Decoded(ASN1Error(InvalidASN1Object, 59), FALSE)

\* A variant that takes only the byte 0x01 for true; the agreement of the
\* BER decoders with the DER ones distinguishes it.
boolean_from_ber_node_one(node) ==
    IF node.identifier # BOOLEAN_ID
    THEN Decoded(ASN1Error(UnexpectedFieldType, 81), FALSE)
    ELSE IF node.content.kind # "Primitive"
    THEN Decoded(ASN1Error(UnexpectedFieldType, 94), FALSE)
    ELSE IF Len(node.content.bytes) # 1
    THEN Decoded(ASN1Error(InvalidASN1Object, 87), FALSE)
    ELSE Decoded(Ok, node.content.bytes[1] = 1)

\* ASN1Boolean::from_ber_node: from_ber_node_with_identifier with the
\* BOOLEAN identifier.
boolean_from_ber_node(node) ==
    IF node.identifier # BOOLEAN_ID
    THEN Decoded(ASN1Error(UnexpectedFieldType, 81), FALSE)
    ELSE IF node.content.kind # "Primitive"
    THEN Decoded(ASN1Error(UnexpectedFieldType, 94), FALSE)
    ELSE IF Len(node.content.bytes) # 1
    THEN Decoded(ASN1Error(InvalidASN1Object, 87), FALSE)
    ELSE Decoded(Ok, node.content.bytes[1] # 0)

\* ASN1Boolean::serialize with a fresh Serializer.
serialize_boolean(b) ==
    append_node(<<>>, BOOLEAN_ID, FALSE, IF b THEN <<255>> ELSE <<0>>)

----------------------------------------------------------------------------
(* The cursor over the children of a constructed node                      *)

\* ASN1NodeCollection::into_iter: the node vector and the index range that
\* is left, its end excluded.
into_iter(collection) ==
    [nodes |-> collection.nodes, start |-> collection.range[1],
     end |-> collection.range[2]]

\* ASN1NodeCollectionIterator::peek.
peek(iter) ==
    IF iter.start >= iter.end THEN None
    ELSE Some(clone_node(iter.nodes, iter.start,
                         subtree_end_index(iter.nodes, iter.start, iter.end)))

\* The cursor after ASN1NodeCollectionIterator::next, which returns what
\* peek returns.
advance(iter) ==
    IF iter.start >= iter.end THEN iter
    ELSE [iter EXCEPT
            !.start = subtree_end_index(iter.nodes, iter.start, iter.end)]

\* What a reader of the cursor returns and the cursor it leaves.
Taken(err, v, iter) == [err |-> err, value |-> v, iter |-> iter]

----------------------------------------------------------------------------
(* BIT STRING                                                              *)

BIT_STRING == ASN1Identifier(U64From(3), Universal)

ASN1BitString(bytes, padding_bits) ==
    [bytes |-> bytes, padding_bits |-> padding_bits]

NoBits == ASN1BitString(<<>>, 0)

\* A variant of the DER decoder without the test of the unused bits of the
\* last octet; the DER BIT STRING property distinguishes it.
bit_string_from_der_node_unmasked(node) ==
    IF node.identifier # BIT_STRING
    THEN Decoded(ASN1Error(UnexpectedFieldType, 49), NoBits)
    ELSE IF node.content.kind # "Primitive"
    THEN Decoded(ASN1Error(UnexpectedFieldType, 76), NoBits)
    ELSE IF node.content.bytes = <<>>
    THEN Decoded(ASN1Error(InvalidASN1Object, 54), NoBits)
    ELSE IF node.content.bytes[1] > 7
    THEN Decoded(ASN1Error(InvalidASN1Object, 58), NoBits)
    ELSE IF Len(node.content.bytes) = 1 /\ node.content.bytes[1] # 0
    THEN Decoded(ASN1Error(InvalidASN1Object, 63), NoBits)
    ELSE Decoded(Ok, ASN1BitString(Tail(node.content.bytes),
                                   node.content.bytes[1]))

\* ASN1BitString::from_der_node: from_der_node_with_identifier with the
\* BIT STRING identifier.
bit_string_from_der_node(node) ==
    IF node.identifier # BIT_STRING
    THEN Decoded(ASN1Error(UnexpectedFieldType, 49), NoBits)
    ELSE IF node.content.kind # "Primitive"
    THEN Decoded(ASN1Error(UnexpectedFieldType, 76), NoBits)
    ELSE IF node.content.bytes = <<>>
    THEN Decoded(ASN1Error(InvalidASN1Object, 54), NoBits)
    ELSE IF node.content.bytes[1] > 7
    THEN Decoded(ASN1Error(InvalidASN1Object, 58), NoBits)
    ELSE IF Len(node.content.bytes) = 1 /\ node.content.bytes[1] # 0
    THEN Decoded(ASN1Error(InvalidASN1Object, 63), NoBits)
    ELSE IF Len(node.content.bytes) > 1
            /\ node.content.bytes[Len(node.content.bytes)]
                  % Pow2(node.content.bytes[1]) # 0
    THEN Decoded(ASN1Error(InvalidASN1Object, 71), NoBits)
    ELSE Decoded(Ok, ASN1BitString(Tail(node.content.bytes),
                                   node.content.bytes[1]))

RECURSIVE bit_string_from_ber_node(_)
RECURSIVE bit_string_segments(_, _, _)
RECURSIVE bit_string_segment(_, _, _, _)

\* A variant of the loop body that lets a segment follow a padded one; the
\* constructed BIT STRING property distinguishes it.
bit_string_segment_any(iter, result_bits, total_padding, part) ==
    IF part.err # Ok THEN part
    ELSE bit_string_segments(advance(iter), result_bits \o part.value.bytes,
                             part.value.padding_bits)

\* The body of the loop over the children once the child is decoded.
bit_string_segment(iter, result_bits, total_padding, part) ==
    IF part.err # Ok THEN part
    ELSE IF total_padding # 0
    THEN Decoded(ASN1Error(InvalidASN1Object, 128), NoBits)
    ELSE bit_string_segments(advance(iter), result_bits \o part.value.bytes,
                             part.value.padding_bits)

\* The loop over the children of a constructed BIT STRING.
bit_string_segments(iter, result_bits, total_padding) ==
    IF peek(iter) = None
    THEN Decoded(Ok, ASN1BitString(result_bits, total_padding))
    ELSE bit_string_segment(iter, result_bits, total_padding,
                            bit_string_from_ber_node(peek(iter)[1]))

\* ASN1BitString::from_ber_node: from_ber_node_with_identifier with the
\* BIT STRING identifier.
bit_string_from_ber_node(node) ==
    IF node.identifier # BIT_STRING
    THEN Decoded(ASN1Error(UnexpectedFieldType, 90), NoBits)
    ELSE IF node.content.kind # "Primitive"
    THEN bit_string_segments(into_iter(node.content), <<>>, 0)
    ELSE IF node.content.bytes = <<>>
    THEN Decoded(ASN1Error(InvalidASN1Object, 98), NoBits)
    ELSE IF node.content.bytes[1] > 7
    THEN Decoded(ASN1Error(InvalidASN1Object, 102), NoBits)
    ELSE Decoded(Ok, ASN1BitString(Tail(node.content.bytes),
                                   node.content.bytes[1]))

----------------------------------------------------------------------------
(* OCTET STRING                                                            *)

OCTET_STRING == ASN1Identifier(U64From(4), Universal)

\* ASN1OctetString::from_der_node: from_der_node_with_identifier with the
\* OCTET STRING identifier.
octet_string_from_der_node(node) ==
    IF node.identifier # OCTET_STRING
    THEN Decoded(ASN1Error(UnexpectedFieldType, 44), <<>>)
    ELSE IF node.content.kind # "Primitive"
    THEN Decoded(ASN1Error(UnexpectedFieldType, 51), <<>>)
    ELSE Decoded(Ok, node.content.bytes)

RECURSIVE octet_string_from_ber_node(_)
RECURSIVE octet_string_children(_, _)

\* The body of the loop over the children once the child is decoded.
octet_string_child(iter, result_bytes, part) ==
    IF part.err # Ok THEN part
    ELSE octet_string_children(advance(iter), result_bytes \o part.value)

\* The loop over the children of a constructed OCTET STRING.
octet_string_children(iter, result_bytes) ==
    IF peek(iter) = None THEN Decoded(Ok, result_bytes)
    ELSE octet_string_child(iter, result_bytes,
                            octet_string_from_ber_node(peek(iter)[1]))

\* ASN1OctetString::from_ber_node: from_ber_node_with_identifier with the
\* OCTET STRING identifier.
octet_string_from_ber_node(node) ==
    IF node.identifier # OCTET_STRING
    THEN Decoded(ASN1Error(UnexpectedFieldType, 66), <<>>)
    ELSE IF node.content.kind # "Primitive"
    THEN octet_string_children(into_iter(node.content), <<>>)
    ELSE Decoded(Ok, node.content.bytes)

----------------------------------------------------------------------------
(* The character strings of impl_string_type!; a String is its UTF-8       *)
(* octets.                                                                 *)

StringTypes ==
    {"ASN1UTF8String", "ASN1PrintableString", "ASN1IA5String",
     "ASN1NumericString"}

\* $tag of a string type.
string_identifier(ty) ==
    CASE ty = "ASN1UTF8String" -> ASN1Identifier(U64From(12), Universal)
      [] ty = "ASN1PrintableString" -> ASN1Identifier(U64From(19), Universal)
      [] ty = "ASN1IA5String" -> ASN1Identifier(U64From(22), Universal)
      [] ty = "ASN1NumericString" -> ASN1Identifier(U64From(18), Universal)

\* line!() inside the macro is the line of the macro's invocation.
string_line(ty) ==
    CASE ty = "ASN1UTF8String" -> 98
      [] ty = "ASN1PrintableString" -> 99
      [] ty = "ASN1IA5String" -> 104
      [] ty = "ASN1NumericString" -> 105

\* The octets of the first character of a byte string when it is well
\* formed UTF-8, 0 when it is not.
utf8_char_width(b) ==
    IF b[1] < 128 THEN 1
    ELSE IF b[1] \in 194..223
    THEN (IF Len(b) >= 2 /\ b[2] \in 128..191 THEN 2 ELSE 0)
    ELSE IF b[1] \in 224..239
    THEN (IF /\ Len(b) >= 3
             /\ b[2] \in (CASE b[1] = 224 -> 160..191
                            [] b[1] = 237 -> 128..159
                            [] OTHER -> 128..191)
             /\ b[3] \in 128..191
          THEN 3 ELSE 0)
    ELSE IF b[1] \in 240..244
    THEN (IF /\ Len(b) >= 4
             /\ b[2] \in (CASE b[1] = 240 -> 144..191
                            [] b[1] = 244 -> 128..143
                            [] OTHER -> 128..191)
             /\ b[3] \in 128..191
             /\ b[4] \in 128..191
          THEN 4 ELSE 0)
    ELSE 0

\* String::from_utf8(bytes) is Ok.
RECURSIVE from_utf8(_)
from_utf8(b) ==
    \/ b = <<>>
    \/ /\ utf8_char_width(b) > 0
       /\ from_utf8(SubSeq(b, utf8_char_width(b) + 1, Len(b)))

\* $validation of a string type on a String.
validation(ty, s) ==
    CASE ty = "ASN1UTF8String" -> TRUE
      [] ty = "ASN1PrintableString" ->
           \A i \in 1..Len(s) :
              s[i] \in (48..57) \cup (65..90) \cup (97..122)
                       \cup {32, 39, 40, 41, 43, 44, 45, 46, 47, 58, 61, 63}
      [] ty = "ASN1IA5String" -> \A i \in 1..Len(s) : s[i] < 128
      [] ty = "ASN1NumericString" ->
           \A i \in 1..Len(s) : s[i] \in (48..57) \cup {32}

\* The Primitive arm of both decoders.
string_primitive(ty, bytes) ==
    IF ~from_utf8(bytes)
    THEN Decoded(ASN1Error(InvalidStringRepresentation, string_line(ty)), <<>>)
    ELSE IF ~validation(ty, bytes)
    THEN Decoded(ASN1Error(InvalidStringRepresentation, string_line(ty)), <<>>)
    ELSE Decoded(Ok, bytes)

RECURSIVE string_from_ber_node(_, _)
RECURSIVE string_children(_, _, _)

\* The body of the loop over the children once the child is decoded.
string_child(ty, iter, res, part) ==
    IF part.err # Ok THEN part
    ELSE string_children(ty, advance(iter), res \o part.value)

\* The loop over the children of a constructed string.
string_children(ty, iter, res) ==
    IF peek(iter) = None THEN Decoded(Ok, res)
    ELSE string_child(ty, iter, res, string_from_ber_node(ty, peek(iter)[1]))

\* $name::from_ber_node: from_ber_node_with_identifier with $tag.
string_from_ber_node(ty, node) ==
    IF node.identifier # string_identifier(ty)
    THEN Decoded(ASN1Error(UnexpectedFieldType, string_line(ty)), <<>>)
    ELSE IF node.content.kind # "Primitive"
    THEN string_children(ty, into_iter(node.content), <<>>)
    ELSE string_primitive(ty, node.content.bytes)

\* A variant of the DER decoder that takes the constructed form as BER
\* does; the constructed string property distinguishes it.
string_from_der_node_constructed(ty, node) == string_from_ber_node(ty, node)

\* $name::from_der_node: from_der_node_with_identifier with $tag.
string_from_der_node(ty, node) ==
    IF node.identifier # string_identifier(ty)
    THEN Decoded(ASN1Error(UnexpectedFieldType, string_line(ty)), <<>>)
    ELSE IF node.content.kind # "Primitive"
    THEN Decoded(ASN1Error(UnexpectedFieldType, string_line(ty)), <<>>)
    ELSE string_primitive(ty, node.content.bytes)

----------------------------------------------------------------------------
(* GeneralizedTime and UTCTime; a DateTime<Utc> is its six fields.  The    *)
(* chrono parser is modelled on contents of the exact shape of the format, *)
(* digits and a final Z, and on contents that do not end with Z.           *)

TimeTypes == {"GeneralizedTime", "UTCTime"}

GENERALIZED_TIME == ASN1Identifier(U64From(24), Universal)

UTC_TIME == ASN1Identifier(U64From(23), Universal)

DateTime(year, month, day, hour, minute, second) ==
    [year |-> year, month |-> month, day |-> day, hour |-> hour,
     minute |-> minute, second |-> second]

NoTime == DateTime(0, 0, 0, 0, 0, 0)

\* The number written by the n digits of s from position i.
RECURSIVE number(_, _, _)
number(s, i, n) ==
    IF n = 0 THEN 0 ELSE number(s, i, n - 1) * 10 + (s[i + n - 1] - 48)

\* The days of a month of the proleptic Gregorian calendar.
days_in_month(year, month) ==
    IF month = 2
    THEN (IF year % 4 = 0 /\ (year % 100 # 0 \/ year % 400 = 0) THEN 29 ELSE 28)
    ELSE IF month \in {4, 6, 9, 11} THEN 30 ELSE 31

\* The fields are those of a date and a time of day.
valid_date_time(t) ==
    /\ t.month \in 1..12
    /\ t.day \in 1..days_in_month(t.year, t.month)
    /\ t.hour \in 0..23
    /\ t.minute \in 0..59
    /\ t.second \in 0..59

\* The fields read from a string of yw year digits, ten more digits and Z;
\* a year of two digits is in 2000..2069 or 1970..1999 for chrono.
time_fields(s, yw) ==
    DateTime(IF yw = 4 THEN number(s, 1, 4)
             ELSE number(s, 1, 2) + (IF number(s, 1, 2) < 70 THEN 2000 ELSE 1900),
             number(s, yw + 1, 2), number(s, yw + 3, 2), number(s, yw + 5, 2),
             number(s, yw + 7, 2), number(s, yw + 9, 2))

\* NaiveDateTime::parse_from_str(s, "%Y%m%d%H%M%SZ") for yw = 4 and
\* (s, "%y%m%d%H%M%SZ") for yw = 2.
parse_from_str(s, yw) ==
    IF \/ Len(s) # yw + 11
       \/ s[Len(s)] # 90
       \/ \E i \in 1..(Len(s) - 1) : s[i] \notin 48..57
    THEN None
    ELSE IF ~valid_date_time(time_fields(s, yw)) THEN None
    ELSE Some(time_fields(s, yw))

\* Does s end with Z?
ends_with_Z(s) == s # <<>> /\ s[Len(s)] = 90

\* The Primitive arm of GeneralizedTime::from_der_node_with_identifier.
generalized_time_primitive(bytes) ==
    IF ~from_utf8(bytes)
    THEN Decoded(ASN1Error(InvalidStringRepresentation, 50), NoTime)
    ELSE IF ~ends_with_Z(bytes)
    THEN Decoded(ASN1Error(InvalidStringRepresentation, 57), NoTime)
    ELSE IF parse_from_str(bytes, 4) = None
    THEN Decoded(ASN1Error(InvalidStringRepresentation, 64), NoTime)
    ELSE Decoded(Ok, parse_from_str(bytes, 4)[1])

\* GeneralizedTime::from_der_node: from_der_node_with_identifier with the
\* GeneralizedTime identifier.
generalized_time_from_der_node(node) ==
    IF node.identifier # GENERALIZED_TIME
    THEN Decoded(ASN1Error(UnexpectedFieldType, 46), NoTime)
    ELSE IF node.content.kind # "Primitive"
    THEN Decoded(ASN1Error(UnexpectedFieldType, 68), NoTime)
    ELSE generalized_time_primitive(node.content.bytes)

\* The year of a UTCTime: 50..99 is 1950..1999, 00..49 is 2000..2049.
full_year(year_val) == (IF year_val >= 50 THEN 1900 ELSE 2000) + year_val

\* naive.with_year(year): the date has to exist in that year.
with_year(naive, year) ==
    IF naive.day > days_in_month(year, naive.month) THEN None
    ELSE Some([naive EXCEPT !.year = year])

\* The Primitive arm of UTCTime::from_der_node_with_identifier.
utc_time_primitive(bytes) ==
    IF ~from_utf8(bytes)
    THEN Decoded(ASN1Error(InvalidStringRepresentation, 102), NoTime)
    ELSE IF ~ends_with_Z(bytes)
    THEN Decoded(ASN1Error(InvalidStringRepresentation, 104), NoTime)
    ELSE IF Len(bytes) < 2
    THEN Decoded(ASN1Error(InvalidStringRepresentation, 111), NoTime)
    ELSE IF parse_from_str(bytes, 2) = None
    THEN Decoded(ASN1Error(InvalidStringRepresentation, 114), NoTime)
    ELSE IF with_year(parse_from_str(bytes, 2)[1],
                      full_year(number(bytes, 1, 2))) = None
    THEN Decoded(ASN1Error(InvalidStringRepresentation, 131), NoTime)
    ELSE Decoded(Ok, with_year(parse_from_str(bytes, 2)[1],
                               full_year(number(bytes, 1, 2)))[1])

\* UTCTime::from_der_node: from_der_node_with_identifier with the UTCTime
\* identifier.
utc_time_from_der_node(node) ==
    IF node.identifier # UTC_TIME
    THEN Decoded(ASN1Error(UnexpectedFieldType, 98), NoTime)
    ELSE IF node.content.kind # "Primitive"
    THEN Decoded(ASN1Error(UnexpectedFieldType, 135), NoTime)
    ELSE utc_time_primitive(node.content.bytes)

\* BERParseable for GeneralizedTime and for UTCTime: from_ber_node is
\* Self::from_der_node.
time_from_ber_node(ty, node) ==
    IF ty = "GeneralizedTime" THEN generalized_time_from_der_node(node)
    ELSE utc_time_from_der_node(node)

\* A number below 100 in two decimal digits, as %y, %m, %d, %H, %M and %S
\* write it.
two_digits(n) == <<48 + (n \div 10), 48 + (n % 10)>>

\* self.0.format("%y%m%d%H%M%SZ"): %y is the year modulo 100.
format_utc(t) ==
    two_digits(t.year % 100) \o two_digits(t.month) \o two_digits(t.day)
    \o two_digits(t.hour) \o two_digits(t.minute) \o two_digits(t.second)
    \o <<90>>

\* UTCTime::serialize into a fresh Serializer.
serialize_utc_time(t) == append_node(<<>>, UTC_TIME, FALSE, format_utc(t))

----------------------------------------------------------------------------
(* OBJECT IDENTIFIER; an ASN1ObjectIdentifier is its content octets and a  *)
(* component is a u64.                                                     *)

OBJECT_IDENTIFIER == ASN1Identifier(U64From(6), Universal)

\* The quotient v / m of a u64 by a number m below 2^15, byte by byte from
\* position i, rem being what the bytes to the left leave.
RECURSIVE U64DivFrom(_, _, _, _)
U64DivFrom(v, i, rem, m) ==
    IF i > 8 THEN <<>>
    ELSE <<(rem * 256 + v[i]) \div m>>
         \o U64DivFrom(v, i + 1, (rem * 256 + v[i]) % m, m)

\* The remainder v % m.
RECURSIVE U64RemFrom(_, _, _, _)
U64RemFrom(v, i, rem, m) ==
    IF i > 8 THEN rem ELSE U64RemFrom(v, i + 1, (rem * 256 + v[i]) % m, m)

\* A thread that has panicked returns nothing.
Panicked(line) == [code |-> "panicked", line |-> line]

\* write_oid_subidentifier: the octets pushed to the buffer.  The eleven
\* rounds of the first loop take every u64, which has at most ten groups.
write_oid_subidentifier(v) ==
    IF v = U64Zero THEN <<0>> ELSE continuation(low_groups(v))

\* The `for &c in components[2..]` loop of new, from position i.
RECURSIVE write_components(_, _)
write_components(components, i) ==
    IF i > Len(components) THEN <<>>
    ELSE write_oid_subidentifier(components[i])
         \o write_components(components, i + 1)

\* `first * 40 + second` and what follows it in new; sum holds the carry
\* and the wrapped bytes of the addition.  With overflow checks (a debug
\* build) a carry panics, without them (a release build) it is dropped.
oid_encode(components, sum, overflow_checks) ==
    IF sum.carry > 0 /\ overflow_checks
    THEN Decoded(Panicked(30), <<>>)
    ELSE Decoded(Ok, write_oid_subidentifier(sum.limbs)
                     \o write_components(components, 3))

\* ASN1ObjectIdentifier::new.
oid_new(components, overflow_checks) ==
    IF Len(components) < 2
    THEN Decoded(ASN1Error(TooFewOIDComponents, 16), <<>>)
    ELSE IF U64Greater(components[1], 2)
    THEN Decoded(ASN1Error(InvalidASN1Object, 23), <<>>)
    ELSE IF U64Less(components[1], 2) /\ U64Greater(components[2], 39)
    THEN Decoded(ASN1Error(InvalidASN1Object, 26), <<>>)
    ELSE oid_encode(components,
                    U64Columns(components[2], 1,
                               U64ToNat(components[1]) * 40, 1),
                    overflow_checks)

\* read_oid_subidentifier: the loop, one byte per iteration; d is what
\* is left of the bytes.  `sum` is
\* value.checked_mul(128).and_then(|v| v.checked_add(chunk)).
RECURSIVE read_oid_loop(_, _, _)

\* A variant of the step that takes a leading 0x80 as the tag-number
\* reader does; the property of the sub-identifiers distinguishes it.
read_oid_byte_lax(d, first_byte, sum) ==
    IF sum = <<>>
    THEN [err |-> ASN1Error(InvalidASN1Object, 269), value |-> U64Zero,
          data |-> Tail(d)]
    ELSE IF d[1] < 128
    THEN [err |-> Ok, value |-> sum[1], data |-> Tail(d)]
    ELSE read_oid_loop(Tail(d), sum[1], FALSE)

read_oid_byte(d, first_byte, sum) ==
    IF first_byte /\ d[1] = 128
    THEN [err |-> ASN1Error(InvalidASN1Object, 255), value |-> U64Zero,
          data |-> Tail(d)]
    ELSE IF sum = <<>>
    THEN [err |-> ASN1Error(InvalidASN1Object, 269), value |-> U64Zero,
          data |-> Tail(d)]
    ELSE IF d[1] < 128
    THEN [err |-> Ok, value |-> sum[1], data |-> Tail(d)]
    ELSE read_oid_loop(Tail(d), sum[1], FALSE)

read_oid_loop(d, v, first_byte) ==
    IF d = <<>>
    THEN [err |-> ASN1Error(TruncatedASN1Field, 245), value |-> v,
          data |-> d]
    ELSE read_oid_byte(d, first_byte,
             and_then_checked_add(checked_mul(v, 128), d[1] % 128))

read_oid_subidentifier(d) == read_oid_loop(d, U64Zero, TRUE)

\* The result of oid_components: the error and the components.
Components(err, components) == [err |-> err, components |-> components]

\* The `while !data.is_empty()` loop of oid_components; sub is the
\* sub-identifier read from a data that is not empty.
RECURSIVE rest_components(_, _, _)
rest_components(d, components, sub) ==
    IF d = <<>> THEN Components(Ok, components)
    ELSE IF sub.err # Ok THEN Components(sub.err, <<>>)
    ELSE IF Len(sub.data) = Len(d)
    THEN Components(ASN1Error(InvalidASN1Object, 129), <<>>)
    ELSE rest_components(sub.data, Append(components, sub.value),
                         read_oid_subidentifier(sub.data))

\* oid_components once the first sub-identifier is read.
first_components(d, first_val) ==
    IF first_val.err # Ok THEN Components(first_val.err, <<>>)
    ELSE IF Len(first_val.data) = Len(d)
    THEN Components(ASN1Error(InvalidASN1Object, 56), <<>>)
    ELSE rest_components(first_val.data,
                         <<U64DivFrom(first_val.value, 1, 0, 40),
                           U64From(U64RemFrom(first_val.value, 1, 0, 40))>>,
                         read_oid_subidentifier(first_val.data))

\* ASN1ObjectIdentifier::oid_components.
oid_components(bytes) ==
    IF bytes = <<>> THEN Components(ASN1Error(InvalidASN1Object, 46), <<>>)
    ELSE first_components(bytes, read_oid_subidentifier(bytes))

\* The validation loop of from_der_node_with_identifier; sub is the
\* sub-identifier read from a check that is not empty.
RECURSIVE oid_validate(_, _, _)
oid_validate(bytes, check, sub) ==
    IF check = <<>> THEN Decoded(Ok, bytes)
    ELSE IF sub.err # Ok THEN Decoded(sub.err, <<>>)
    ELSE IF Len(sub.data) = Len(check)
    THEN Decoded(ASN1Error(InvalidASN1Object, 179), <<>>)
    ELSE oid_validate(bytes, sub.data, read_oid_subidentifier(sub.data))

\* ASN1ObjectIdentifier::from_der_node: from_der_node_with_identifier with
\* the OBJECT IDENTIFIER identifier; from_ber_node calls it too.
oid_from_der_node(node) ==
    IF node.identifier # OBJECT_IDENTIFIER
    THEN Decoded(ASN1Error(UnexpectedFieldType, 160), <<>>)
    ELSE IF node.content.kind # "Primitive"
    THEN Decoded(ASN1Error(UnexpectedFieldType, 186), <<>>)
    ELSE IF node.content.bytes = <<>>
    THEN Decoded(ASN1Error(InvalidASN1Object, 166), <<>>)
    ELSE oid_validate(node.content.bytes, node.content.bytes,
                      read_oid_subidentifier(node.content.bytes))

----------------------------------------------------------------------------
(* NULL                                                                    *)

NULL == ASN1Identifier(U64From(5), Universal)

\* ASN1Null::from_der_node_with_identifier(node, ASN1Identifier::NULL),
\* which from_der_node, from_ber_node and from_ber_node_with_identifier
\* call.
null_from_der_node(node) ==
    IF node.identifier # NULL
    THEN Decoded(ASN1Error(UnexpectedFieldType, 29), <<>>)
    ELSE IF node.content.kind # "Primitive"
    THEN Decoded(ASN1Error(UnexpectedFieldType, 38), <<>>)
    ELSE IF node.content.bytes # <<>>
    THEN Decoded(ASN1Error(InvalidASN1Object, 34), <<>>)
    ELSE Decoded(Ok, "ASN1Null")

----------------------------------------------------------------------------
(* SEQUENCE OF, for the element type ASN1Boolean                           *)

\* collection.into_iter().map(|n| T::from_der_node(n)).collect(): item is
\* the decode of the node the cursor is at.
RECURSIVE sequence_of_items(_, _, _)
sequence_of_items(iter, items, item) ==
    IF peek(iter) = None THEN Decoded(Ok, items)
    ELSE IF item.err # Ok THEN Decoded(item.err, <<>>)
    ELSE sequence_of_items(advance(iter), Append(items, item.value),
             IF peek(advance(iter)) = None THEN item
             ELSE boolean_from_der_node(peek(advance(iter))[1]))

\* der::sequence_of::<ASN1Boolean>(identifier, root_node).
sequence_of(identifier, root) ==
    IF root.identifier # identifier
    THEN Decoded(ASN1Error(UnexpectedFieldType, 116), <<>>)
    ELSE IF root.content.kind # "Constructed"
    THEN Decoded(ASN1Error(UnexpectedFieldType, 122), <<>>)
    ELSE sequence_of_items(into_iter(root.content), <<>>,
             IF peek(into_iter(root.content)) = None THEN Decoded(Ok, FALSE)
             ELSE boolean_from_der_node(peek(into_iter(root.content))[1]))

----------------------------------------------------------------------------
(* SEQUENCE                                                                *)

SET == ASN1Identifier(U64From(17), Universal)

\* A builder closure handed to sequence: it calls iter.next() b.take times
\* and returns Err(b.err), or Ok of the identifiers of the nodes it got.
RECURSIVE builder(_, _, _)
builder(b, iter, seen) ==
    IF b.take = 0 \/ peek(iter) = None
    THEN Taken(b.err, IF b.err = Ok THEN seen ELSE None, iter)
    ELSE builder([b EXCEPT !.take = @ - 1], advance(iter),
                 Append(seen, peek(iter)[1].identifier))

\* A variant that returns the builder's value whatever is left in the
\* cursor; the property of the SEQUENCE helper distinguishes it.
after_builder_unchecked(built) ==
    IF built.err # Ok THEN Decoded(built.err, <<>>)
    ELSE Decoded(Ok, built.value)

\* let result = builder(&mut iter)?; if iter.next().is_some() { Err } else
\* { Ok(result) }.
after_builder(built) ==
    IF built.err # Ok THEN Decoded(built.err, <<>>)
    ELSE IF peek(built.iter) # None
    THEN Decoded(ASN1Error(InvalidASN1Object, 106), <<>>)
    ELSE Decoded(Ok, built.value)

\* der::sequence(node, identifier, builder), which ber::sequence calls.
sequence(node, identifier, b) ==
    IF node.identifier # identifier
    THEN Decoded(ASN1Error(UnexpectedFieldType, 99), <<>>)
    ELSE IF node.content.kind # "Constructed"
    THEN Decoded(ASN1Error(UnexpectedFieldType, 110), <<>>)
    ELSE after_builder(builder(b, into_iter(node.content), <<>>))

----------------------------------------------------------------------------
(* The decoder of a type, chosen as the trait implementations choose it    *)

\* T::from_der_node(node) under DER, T::from_ber_node(node) under BER.
from_node(ty, r, node) ==
    CASE ty = "ASN1Boolean" ->
           IF r = Basic THEN boolean_from_ber_node(node)
           ELSE boolean_from_der_node(node)
      [] ty = "ASN1BitString" ->
           IF r = Basic THEN bit_string_from_ber_node(node)
           ELSE bit_string_from_der_node(node)
      [] ty = "ASN1OctetString" ->
           IF r = Basic THEN octet_string_from_ber_node(node)
           ELSE octet_string_from_der_node(node)
      [] ty \in StringTypes ->
           IF r = Basic THEN string_from_ber_node(ty, node)
           ELSE string_from_der_node(ty, node)
      [] ty = "GeneralizedTime" ->
           IF r = Basic THEN time_from_ber_node(ty, node)
           ELSE generalized_time_from_der_node(node)
      [] ty = "UTCTime" ->
           IF r = Basic THEN time_from_ber_node(ty, node)
           ELSE utc_time_from_der_node(node)
      [] ty = "ASN1ObjectIdentifier" -> oid_from_der_node(node)
      [] ty = "ASN1Null" -> null_from_der_node(node)
      [] ty = "Vec<ASN1Boolean>" -> sequence_of(SEQUENCE, node)
      [] ty = "ASN1Integer" ->
           IF r = Basic THEN from_ber_node_with_identifier(node, INTEGER)
           ELSE from_der_node_with_identifier(node, INTEGER)

\* T::from_der_bytes, and T::from_ber_node(ber::parse(..)?): the ? on the
\* parse, then the decoder on the root node.
from_root(ty, r, parsed) ==
    IF parsed.err # Ok THEN Decoded(parsed.err, <<>>)
    ELSE from_node(ty, r, parsed.node[1])

----------------------------------------------------------------------------
(* OPTIONAL                                                                *)

\* T::default_identifier() of the types an OPTIONAL is drawn of.
default_identifier(ty) ==
    CASE ty = "ASN1Boolean" -> BOOLEAN_ID
      [] ty = "ASN1Integer" -> INTEGER
      [] ty = "Vec<ASN1Boolean>" -> SEQUENCE

\* A variant that takes a node the inner decoder refuses for an absent
\* field and puts it back; the property of OPTIONAL distinguishes it.
map_some_or_retry(decoded, iter) ==
    IF decoded.err # Ok THEN Taken(Ok, None, iter)
    ELSE Taken(Ok, Some(decoded.value), iter)

\* T::from_der_node(node).map(Some) on the node that iter.next() returned.
map_some(decoded, iter) ==
    IF decoded.err # Ok THEN Taken(decoded.err, None, iter)
    ELSE Taken(Ok, Some(decoded.value), iter)

\* Option<T>::from_der_iterator(iter).
option_from_der_iterator(ty, iter) ==
    IF peek(iter) = None THEN Taken(Ok, None, iter)
    ELSE IF peek(iter)[1].identifier # default_identifier(ty)
    THEN Taken(Ok, None, iter)
    ELSE map_some(from_node(ty, Distinguished, peek(iter)[1]), advance(iter))

----------------------------------------------------------------------------
(* Inputs                                                                  *)

\* The longest input drawn from the alphabet.
MaxLen == 6

\* The deepest nesting of indefinite-length SEQUENCEs drawn.
MaxNest == 52

\* Bytes that steer the tree builder: the end-of-content / zero octet, a
\* primitive identifier that is also the length 2, the constructed SEQUENCE
\* identifier, the indefinite-length octet and the long-form length 0x81.
Alphabet == {0, 2, 48, 128, 129}

RECURSIVE BytesOfLen(_)
BytesOfLen(n) ==
    IF n = 0 THEN {<<>>}
    ELSE {Append(b, x) : b \in BytesOfLen(n - 1), x \in Alphabet}

BytesUpTo(n) == UNION {BytesOfLen(k) : k \in 0..n}

\* n copies of a non-empty byte string, one after the other.
Repeat(bytes, n) ==
    <<>> \o [i \in 1..(n * Len(bytes)) |-> bytes[((i - 1) % Len(bytes)) + 1]]

\* k nested indefinite-length SEQUENCEs: k times 30 80, then k times 00 00.
NestedIndefinite(k) == Repeat(<<48, 128>>, k) \o Repeat(<<0, 0>>, k)

\* Long-form tags: the first identifier octets drawn (every class, and
\* one constructed), the most redundant leading 0x80 octets, and the tag
\* numbers: the small ones on both sides of 31, and the edges of the base
\* 128 groups up to the largest u64.
TagTopBytes == {31, 63, 95, 159, 223}

MaxPad == 1

MaxSmallTag == 40

TagNumbers ==
    {U64From(n) : n \in 0..MaxSmallTag}
    \cup {U64From(127), U64From(128), U64From(16383), U64From(16384),
          <<0, 0, 0, 1, 0, 0, 0, 0>>, <<127, 255, 255, 255, 255, 255, 255, 255>>,
          <<128, 0, 0, 0, 0, 0, 0, 0>>, U64Max}

\* A long-form identifier of the tag number v behind pad redundant octets,
\* with an empty content.
LongTag(top, pad, v) ==
    <<top>> \o Repeat(<<128>>, pad) \o write_asn1_discipline_uint(v) \o <<0>>

\* An input is described by its family and the family's parameters; n is
\* the longest byte string of the first family.
Sources(n) ==
    {<<"bytes", b>> : b \in BytesUpTo(n)}
    \cup {<<"nested", <<k>>>> : k \in 1..MaxNest}
    \cup {<<"tag", <<top, pad>> \o v>> :
              top \in TagTopBytes, pad \in 0..MaxPad, v \in TagNumbers}

Gen(s) ==
    CASE s[1] = "bytes" -> s[2]
      [] s[1] = "nested" -> NestedIndefinite(s[2][1])
      [] s[1] = "tag" -> LongTag(s[2][1], s[2][2], SubSeq(s[2], 3, 10))

----------------------------------------------------------------------------
(* The state machine: an input is chosen, then parsed once under BER or    *)
(* under DER.                                                              *)

NoResult == [err |-> Ok, nodes |-> <<>>]

Init ==
    /\ src \in Sources(MaxLen)
    /\ data = Gen(src)
    /\ phase = "input"
    /\ rules = "none"
    /\ result = NoResult
    /\ value = 0
    /\ out = <<>>
    /\ target = "none"

BerParse ==
    /\ phase = "input"
    /\ result' = ber_parse(data)
    /\ rules' = Basic
    /\ phase' = "done"
    /\ UNCHANGED <<src, data, value, out, target>>

DerParse ==
    /\ phase = "input"
    /\ result' = der_parse(data)
    /\ rules' = Distinguished
    /\ phase' = "done"
    /\ UNCHANGED <<src, data, value, out, target>>

Next == BerParse \/ DerParse

Spec == Init /\ [][Next]_vars

----------------------------------------------------------------------------
(* Reading a node's own header back from its encoded bytes                 *)

\* The index of the last octet of a long-form tag number that starts at j:
\* the first octet without the continuation bit.
RECURSIVE tag_end(_, _)
tag_end(enc, j) ==
    IF j >= Len(enc) THEN Len(enc)
    ELSE IF enc[j] < 128 THEN j
    ELSE tag_end(enc, j + 1)

\* The number of identifier octets at the start of enc.
IdentifierLen(enc) == IF enc[1] % 32 = 31 THEN tag_end(enc, 2) ELSE 1

\* The first length octet, the one behind the identifier octets.
length_octet(enc, at) == IF at > Len(enc) THEN 0 ELSE enc[at]

\* The node was read with the indefinite form: its length octet is 0x80.
UsedIndefinite(node) ==
    length_octet(node.encoded_bytes, IdentifierLen(node.encoded_bytes) + 1) = 128

length_octets(first) == IF first > 128 THEN 1 + (first % 128) ELSE 1

\* The number of identifier and length octets at the start of enc.
header_len(enc, id_len) == id_len + length_octets(length_octet(enc, id_len + 1))

HeaderLen(enc) == header_len(enc, IdentifierLen(enc))

\* The encoded bytes of the direct children of a node of the given depth,
\* among nodes[j..end-1], one after the other.
RECURSIVE children_bytes(_, _, _, _)
children_bytes(nodes, j, end, depth) ==
    IF j >= end THEN <<>>
    ELSE (IF nodes[j].depth = depth + 1 THEN nodes[j].encoded_bytes ELSE <<>>)
         \o children_bytes(nodes, j + 1, end, depth)

ChildrenBytes(nodes, i) ==
    children_bytes(nodes, i + 1, subtree_end_index(nodes, i, Len(nodes) + 1),
                   nodes[i].depth)

\* What a constructed node's encoding is made of.
Composed(nodes, i, enc) ==
    enc = SubSeq(enc, 1, HeaderLen(enc)) \o ChildrenBytes(nodes, i)
          \o (IF UsedIndefinite(nodes[i]) THEN <<0, 0>> ELSE <<>>)

\* The parse of bytes under the rule set r.
parse_under(r, bytes) == IF r = Basic THEN ber_parse(bytes) ELSE der_parse(bytes)

----------------------------------------------------------------------------
(* Properties of the tree builder                                          *)

\* C2: under BER, k nested indefinite-length SEQUENCEs (k times 30 80, then
\* k times 00 00) parse for every k from 1 to 49 and fail with
\* InvalidASN1Object for every k from 50 on.
C2_NestingLimit ==
    (phase = "done" /\ rules = Basic /\ src[1] = "nested")
    => IF src[2][1] <= 49
       THEN result.err = Ok /\ Len(result.nodes) = src[2][1]
       ELSE result.err.code = InvalidASN1Object

\* 50 nested SEQUENCEs have been refused under BER.
C2_Witness ==
    /\ phase = "done" /\ rules = Basic
    /\ src = <<"nested", <<50>>>>
    /\ result.err.code = InvalidASN1Object

\* C3, as the specification states it: under BER no input parses in which
\* some indefinite-length node lacks its own end-of-content marker, a
\* direct child of it: in a successful parse every indefinite-length node
\* is as long as its header, its direct children and its own two marker
\* octets.
C3_OwnEndMarker ==
    (phase = "done" /\ rules = Basic /\ result.err = Ok)
    => \A i \in 1..Len(result.nodes) :
          UsedIndefinite(result.nodes[i])
          => Len(result.nodes[i].encoded_bytes)
             = HeaderLen(result.nodes[i].encoded_bytes)
               + Len(ChildrenBytes(result.nodes, i)) + 2

\* C4, as the specification states it: in every successful parse each
\* constructed node's encoded bytes are its identifier and length octets,
\* then its children's encoded bytes in order, then 00 00 if the node is of
\* indefinite length; and the root's encoded bytes are the whole input.
C4_EncodedBytesComposed ==
    (phase = "done" /\ result.err = Ok)
    => /\ result.nodes[1].encoded_bytes = data
       /\ \A i \in 1..Len(result.nodes) :
             result.nodes[i].is_constructed
             => Composed(result.nodes, i, result.nodes[i].encoded_bytes)

\* C24: under BER the node that an indefinite-length loop takes for the
\* end-of-content marker and removes is a direct child of the loop's node;
\* a 00 00 element lying deeper, such as the last element of a
\* definite-length constructed child, is never removed: in a successful
\* parse the content of every definite-length constructed node is made of
\* the encodings of its direct children, none missing.
C24_MarkerIsDirectChild ==
    (phase = "done" /\ rules = Basic /\ result.err = Ok)
    => \A i \in 1..Len(result.nodes) :
          (result.nodes[i].is_constructed /\ ~UsedIndefinite(result.nodes[i]))
          => Len(result.nodes[i].encoded_bytes)
             = HeaderLen(result.nodes[i].encoded_bytes)
               + Len(ChildrenBytes(result.nodes, i))

\* C25: every successful parse result is a well-formed flat tree in
\* pre-order: it is not empty, its first node has depth 1 and is the only
\* one of depth 1, every later node has a depth from 2 to one more than the
\* depth of the node before it, no depth exceeds 50, and a node has a
\* content slice exactly when it is primitive; der::parse never reports
\* that no node or more than one root was parsed.
C25_WellFormedTree ==
    phase = "done"
    => /\ result.err # ASN1Error(InvalidASN1Object, 52)
       /\ result.err # ASN1Error(InvalidASN1Object, 74)
       /\ result.err = Ok
          => /\ Len(result.nodes) >= 1
             /\ result.nodes[1].depth = 1
             /\ \A i \in 2..Len(result.nodes) :
                   /\ result.nodes[i].depth >= 2
                   /\ result.nodes[i].depth <= result.nodes[i - 1].depth + 1
             /\ \A i \in 1..Len(result.nodes) :
                   /\ result.nodes[i].depth <= MAXIMUM_NODE_DEPTH
                   /\ (result.nodes[i].data_bytes # None)
                      <=> ~result.nodes[i].is_constructed

\* A SEQUENCE in a SEQUENCE with a NULL in it has been parsed into three
\* nodes of the depths 1, 2 and 3, and 49 nested SEQUENCEs into 49 nodes.
C25_Witness ==
    /\ phase = "done" /\ result.err = Ok
    /\ \/ /\ data = <<48, 4, 48, 2, 5, 0>>
          /\ [i \in 1..3 |-> result.nodes[i].depth] = <<1, 2, 3>>
       \/ /\ src = <<"nested", <<49>>>>
          /\ result.nodes[49].depth = 49

\* C5: an input that is one complete top-level TLV followed by at least one
\* more byte is refused with InvalidASN1Object; a successful parse has
\* consumed the whole input as one root TLV.
C5_NoTrailingData ==
    phase = "done"
    => /\ (\E n \in 1..(Len(data) - 1) :
              parse_under(rules, SubSeq(data, 1, n)).err = Ok)
          => result.err.code = InvalidASN1Object
       /\ result.err = Ok
          => /\ Len(result.nodes) >= 1
             /\ result.nodes[1].depth = 1
             /\ Len(result.nodes[1].encoded_bytes) = Len(data)
             /\ \A i \in 2..Len(result.nodes) : result.nodes[i].depth > 1

\* A complete TLV with bytes behind it has been refused.
C5_Witness ==
    /\ phase = "done"
    /\ \E n \in 1..(Len(data) - 1) :
          parse_under(rules, SubSeq(data, 1, n)).err = Ok
    /\ result.err = ASN1Error(InvalidASN1Object, 69)

\* The octet behind a short identifier at the position at is 0x80.
IndefiniteHeaderAt(at) ==
    /\ Len(data) >= at + 1
    /\ data[at] % 32 # 31
    /\ data[at + 1] = 128

\* The input begins with a constructed header of a short identifier and a
\* one-octet length, and holds the content that the length announces, a
\* child header at least.
ConstructedHeaderFirst ==
    /\ Len(data) >= 4
    /\ data[1] % 32 # 31
    /\ (data[1] \div 32) % 2 = 1
    /\ data[2] \in 2..127 \cup {128}
    /\ data[2] = 128 \/ Len(data) >= 2 + data[2]

\* C7: under DER an input with the length octet 0x80 in a header, at any
\* depth, is refused, with UnsupportedFieldLength when that header is the
\* first violation met; under BER the octet 0x80 behind a primitive
\* identifier is refused with UnsupportedFieldLength.
C7_IndefiniteLength ==
    /\ (phase = "done" /\ rules = Distinguished)
       => /\ result.err = Ok
             => \A i \in 1..Len(result.nodes) : ~UsedIndefinite(result.nodes[i])
          /\ IndefiniteHeaderAt(1) => result.err.code = UnsupportedFieldLength
          /\ (ConstructedHeaderFirst /\ data[2] # 128 /\ IndefiniteHeaderAt(3))
             => result.err.code = UnsupportedFieldLength
          /\ (\E i \in 1..Len(ber_parse(data).nodes) :
                 UsedIndefinite(ber_parse(data).nodes[i]))
             => result.err.code = UnsupportedFieldLength
    /\ (phase = "done" /\ rules = Basic)
       => /\ (IndefiniteHeaderAt(1) /\ (data[1] \div 32) % 2 = 0)
             => result.err.code = UnsupportedFieldLength
          /\ (ConstructedHeaderFirst /\ IndefiniteHeaderAt(3)
               /\ (data[3] \div 32) % 2 = 0)
             => result.err.code = UnsupportedFieldLength

\* DER has refused an input that BER parses into a tree with an
\* indefinite-length node below the root.
C7_Witness ==
    /\ phase = "done" /\ rules = Distinguished
    /\ result.err.code = UnsupportedFieldLength
    /\ \E i \in 2..Len(ber_parse(data).nodes) :
          UsedIndefinite(ber_parse(data).nodes[i])

\* C8: under both rule sets a long-form tag whose number is below 31 is
\* refused with InvalidASN1Object, and every long-form tag number from 31
\* to 2^64 - 1 is accepted and becomes the node's tag number.
C8_LongFormTag ==
    (phase = "done" /\ src[1] = "tag")
    => IF U64Less(SubSeq(src[2], 3, 10), 31)
       THEN result.err.code = InvalidASN1Object
       ELSE /\ result.err = Ok
            /\ result.nodes[1].identifier
               = ASN1Identifier(SubSeq(src[2], 3, 10), from_top_byte(src[2][1]))

\* The long-form tag 2^64 - 1 has been accepted.
C8_Witness ==
    /\ phase = "done"
    /\ src[1] = "tag"
    /\ SubSeq(src[2], 3, 10) = U64Max
    /\ result.err = Ok
    /\ result.nodes[1].identifier.tag_number = U64Max

----------------------------------------------------------------------------
(* The length field on its own: a long-form length is drawn and read once, *)
(* with minimal encoding required or not.                                  *)

\* The most leading zero octets, and the most significant octets, of a
\* long-form length drawn.
MaxZeros == 2

MaxSig == 9

\* The significant octets drawn: a first octet that is not zero, then
\* octets that are all 0x00 or all 0xFF.
Significant ==
    {<<>>} \cup {<<f>> \o Repeat(<<g>>, n - 1) :
                    f \in {1, 127, 128, 255}, g \in {0, 255}, n \in 1..MaxSig}

\* The long-form lengths drawn: 0x81 n for every n below 128, and z zero
\* octets before significant octets.
LengthSources ==
    {<<"short", <<n>>>> : n \in 0..127}
    \cup {<<"long", <<z>> \o sig>> : z \in 0..MaxZeros, sig \in Significant}

LengthField(s) ==
    IF s[1] = "short" THEN <<129, s[2][1]>>
    ELSE <<128 + s[2][1] + (Len(s[2]) - 1)>>
         \o Repeat(<<0>>, s[2][1]) \o SubSeq(s[2], 2, Len(s[2]))

InitLen ==
    /\ src \in LengthSources
    /\ data = LengthField(src)
    /\ phase = "input"
    /\ rules = "none"
    /\ result = NoResult
    /\ value = 0
    /\ out = <<>>
    /\ target = "none"

\* _read_asn1_length(data, true), as _parse_node calls it under DER.
ReadLengthMinimal ==
    /\ phase = "input"
    /\ result' = _read_asn1_length(data, View(0, Len(data)), TRUE)
    /\ rules' = Distinguished
    /\ phase' = "done"
    /\ UNCHANGED <<src, data, value, out, target>>

\* _read_asn1_length(data, false), as _parse_node calls it under BER.
ReadLengthAny ==
    /\ phase = "input"
    /\ result' = _read_asn1_length(data, View(0, Len(data)), FALSE)
    /\ rules' = Basic
    /\ phase' = "done"
    /\ UNCHANGED <<src, data, value, out, target>>

NextLen == ReadLengthMinimal \/ ReadLengthAny

SpecLen == InitLen /\ [][NextLen]_vars

\* The numbers of zero and of significant octets of a long-form length
\* drawn, and the fewest octets that hold its value.
ZeroOctets == src[2][1]

SigOctets == Len(src[2]) - 1

MinimalOctets == IF SigOctets = 0 THEN 1 ELSE SigOctets

\* C6, as the specification states it: 0x81 n with n below 128 is refused
\* with UnsupportedFieldLength when minimal encoding is required and read as
\* Definite(n) when it is not; and under DER every long-form length with
\* more length octets than its value needs is refused with
\* UnsupportedFieldLength.
C6_AsStated ==
    /\ (phase = "done" /\ src[1] = "short")
       => IF rules = Distinguished
          THEN result.err.code = UnsupportedFieldLength
          ELSE result.err = Ok /\ result.length = Definite(U64From(src[2][1]))
    /\ (phase = "done" /\ src[1] = "long" /\ rules = Distinguished
        /\ ZeroOctets + SigOctets > MinimalOctets)
       => result.err.code = UnsupportedFieldLength

\* C6, amended: as stated for 0x81 n; under DER a long-form length with more
\* length octets than its value needs is refused with UnsupportedFieldLength
\* when the value is at most 2^64 - 1, and a long-form length whose value
\* is above 2^64 - 1 is refused with InvalidASN1Object under both rule sets.
C6_MinimalLength ==
    /\ (phase = "done" /\ src[1] = "short")
       => IF rules = Distinguished
          THEN result.err.code = UnsupportedFieldLength
          ELSE result.err = Ok /\ result.length = Definite(U64From(src[2][1]))
    /\ (phase = "done" /\ src[1] = "long" /\ rules = Distinguished
        /\ SigOctets <= 8 /\ ZeroOctets + SigOctets > MinimalOctets)
       => result.err.code = UnsupportedFieldLength
    /\ (phase = "done" /\ src[1] = "long" /\ SigOctets > 8)
       => result.err.code = InvalidASN1Object

\* A length of at least 128 with a redundant zero octet has been refused
\* where minimal encoding is required.
C6_Witness ==
    /\ phase = "done" /\ rules = Distinguished
    /\ src[1] = "long" /\ ZeroOctets >= 1 /\ SigOctets \in 2..8
    /\ result.err = ASN1Error(UnsupportedFieldLength, 280)

----------------------------------------------------------------------------
(* The INTEGER codec: a value is serialized, or an encoding is drawn; the  *)
(* encoding is decoded under DER or BER, and what was decoded is           *)
(* serialized again.                                                       *)

\* The values drawn: every one up to MaxSmallInt on both sides of zero,
\* and the values at the edges of two, three and four octets.
MaxSmallInt == 300

IntValues ==
    (-MaxSmallInt..MaxSmallInt)
    \cup {32767, 32768, -32768, -32769, 65535, 65536, 8388607, 8388608,
          -8388608, -8388609, 2147483647, -2147483647}

\* The contents drawn: up to MaxIntLen octets at the edges of the sign bit.
MaxIntLen == 3

IntOctets == {0, 1, 127, 128, 254, 255}

RECURSIVE ContentsOfLen(_)
ContentsOfLen(n) ==
    IF n = 0 THEN {<<>>}
    ELSE {<<x>> \o c : x \in IntOctets, c \in ContentsOfLen(n - 1)}

\* The identifier octets drawn: INTEGER, OCTET STRING, constructed INTEGER.
IntIdentifiers == {2, 4, 34}

\* An encoding drawn: an identifier octet, the length in the short form or
\* in the form 0x81 n, and the content.
IntSources ==
    {<<"value", <<v>>>> : v \in IntValues}
    \cup {<<"tlv", <<id, form>> \o c>> :
              id \in IntIdentifiers, form \in {0, 1},
              c \in UNION {ContentsOfLen(n) : n \in 0..MaxIntLen}}

IntTlv(s) ==
    <<s[1]>> \o (IF s[2] = 1 THEN <<129>> ELSE <<>>) \o <<Len(s) - 2>>
    \o SubSeq(s, 3, Len(s))

InitInt ==
    /\ src \in IntSources
    /\ phase = (IF src[1] = "value" THEN "value" ELSE "input")
    /\ value = (IF src[1] = "value" THEN src[2][1] ELSE 0)
    /\ data = (IF src[1] = "value" THEN <<>> ELSE IntTlv(src[2]))
    /\ rules = "none"
    /\ result = IntegerResult(Ok, 0)
    /\ out = <<>>
    /\ target = "none"

\* ASN1Integer::from(value) serialized by a fresh Serializer.
SerializeInteger ==
    /\ phase = "value"
    /\ data' = serialize_integer(value)
    /\ phase' = "input"
    /\ UNCHANGED <<src, rules, result, value, out, target>>

\* ASN1Integer::from_der_bytes(data).
DecodeIntegerDER ==
    /\ phase = "input"
    /\ result' = integer_from_der_node(root_node(der_parse(data)))
    /\ rules' = Distinguished
    /\ phase' = "decoded"
    /\ UNCHANGED <<src, data, value, out, target>>

\* ASN1Integer::from_ber_node(ber::parse(data)?).
DecodeIntegerBER ==
    /\ phase = "input"
    /\ result' = integer_from_ber_node(root_node(ber_parse(data)))
    /\ rules' = Basic
    /\ phase' = "decoded"
    /\ UNCHANGED <<src, data, value, out, target>>

\* The decoded ASN1Integer serialized by a fresh Serializer.
ReserializeInteger ==
    /\ phase = "decoded"
    /\ result.err = Ok
    /\ out' = serialize_integer(result.value)
    /\ phase' = "done"
    /\ UNCHANGED <<src, data, rules, result, value, target>>

NextInt ==
    SerializeInteger \/ DecodeIntegerDER \/ DecodeIntegerBER \/ ReserializeInteger

SpecInt == InitInt /\ [][NextInt]_vars

\* The content of the encoding drawn, and of the encoding in data.
DrawnContent == SubSeq(src[2], 3, Len(src[2]))

\* The content has a first octet that its second octet makes redundant.
Redundant(c) ==
    /\ Len(c) >= 2
    /\ (c[1] = 0 /\ c[2] < 128) \/ (c[1] = 255 /\ c[2] >= 128)

\* c is v in two's complement on Len(c) octets.
IsTwosComplement(v, c) ==
    /\ Len(c) >= 1
    /\ (v \div Pow256(Len(c) - 1)) \in -128..127
    /\ \A i \in 1..Len(c) : (v \div Pow256(Len(c) - i)) % 256 = c[i]

\* C9: DER decoding of a primitive INTEGER fails with
\* InvalidASN1IntegerEncoding exactly when the content has at least two
\* octets and the first is 0x00 before a second with the high bit clear, or
\* 0xFF before a second with the high bit set; BER decoding accepts those
\* contents and returns their two's-complement value; an empty content is
\* refused with InvalidASN1Object under both.
C9_MinimalInteger ==
    (phase = "decoded" /\ src[1] = "tlv" /\ src[2][1] = 2)
    => /\ (rules = Distinguished /\ src[2][2] = 0)
          => /\ result.err.code = InvalidASN1IntegerEncoding
                <=> Redundant(DrawnContent)
             /\ (DrawnContent # <<>> /\ ~Redundant(DrawnContent))
                => /\ result.err = Ok
                   /\ IsTwosComplement(result.value, DrawnContent)
       /\ (rules = Basic /\ Redundant(DrawnContent))
          => /\ result.err = Ok
             /\ IsTwosComplement(result.value, DrawnContent)
       /\ (DrawnContent = <<>> /\ (rules = Basic \/ src[2][2] = 0))
          => result.err.code = InvalidASN1Object

\* DER has refused 02 02 FF 80 as a redundant encoding.
C9_Witness ==
    /\ phase = "decoded" /\ rules = Distinguished
    /\ data = <<2, 2, 255, 128>>
    /\ result.err = ASN1Error(InvalidASN1IntegerEncoding, 79)

\* C10: the serializer emits for every value v the identifier 02, the
\* length and the minimal two's-complement content of v, and the DER
\* decoder returns v for it; and serializing what the DER decoder made of
\* an encoding gives the bytes of that encoding.
C10_CanonicalInteger ==
    /\ (src[1] = "value" /\ phase # "value")
       => /\ Len(data) >= 3 /\ data[1] = 2 /\ data[2] = Len(data) - 2
          /\ IsTwosComplement(value, SubSeq(data, 3, Len(data)))
          /\ ~Redundant(SubSeq(data, 3, Len(data)))
    /\ (src[1] = "value" /\ phase = "decoded" /\ rules = Distinguished)
       => result = IntegerResult(Ok, value)
    /\ (phase = "done" /\ rules = Distinguished) => out = data

\* A drawn encoding of three octets of content has been decoded under DER
\* and serialized back to its bytes.
C10_Witness ==
    /\ phase = "done" /\ rules = Distinguished
    /\ src[1] = "tlv" /\ Len(data) = 5
    /\ out = data

----------------------------------------------------------------------------
(* Wide trees: a SEQUENCE of n NULL children is drawn and parsed once      *)
(* under BER or under DER.                                                 *)

\* The node limit that the specification and the resource exhaustion test
\* name.
MAX_NODES == 100000

\* The most children of the small trees drawn.
MaxFlat == 30

\* A SEQUENCE of n NULLs, of indefinite length (form 0) or of definite
\* length (form 1).
FlatSequence(form, n) ==
    IF form = 0
    THEN <<48, 128>> \o Repeat(<<5, 0>>, n) \o <<0, 0>>
    ELSE <<48>> \o encode_length(2 * n) \o Repeat(<<5, 0>>, n)

FlatSources ==
    {<<"flat", <<form, n>>>> :
        form \in {0, 1}, n \in (0..MaxFlat) \cup {MAX_NODES + 1}}

\* The input is kept by its description src, and of the parse result the
\* error and the length of the node vector are kept.
InitNodes ==
    /\ src \in FlatSources
    /\ data = <<>>
    /\ phase = "input"
    /\ rules = "none"
    /\ result = [err |-> Ok, count |-> 0]
    /\ value = 0
    /\ out = <<>>
    /\ target = "none"

node_count(res) == [err |-> res.err, count |-> Len(res.nodes)]

\* ber::parse of the input drawn.
CountNodesBER ==
    /\ phase = "input"
    /\ result' = node_count(ber_parse(FlatSequence(src[2][1], src[2][2])))
    /\ rules' = Basic
    /\ phase' = "done"
    /\ UNCHANGED <<src, data, value, out, target>>

\* der::parse of the input drawn.
CountNodesDER ==
    /\ phase = "input"
    /\ result' = node_count(der_parse(FlatSequence(src[2][1], src[2][2])))
    /\ rules' = Distinguished
    /\ phase' = "done"
    /\ UNCHANGED <<src, data, value, out, target>>

NextNodes == CountNodesBER \/ CountNodesDER

SpecNodes == InitNodes /\ [][NextNodes]_vars

\* C1, as the specification states it: under BER and under DER a
\* well-formed input whose tree would have more than 100,000 nodes is
\* refused with InvalidASN1Object, and the node vector never holds more
\* than 100,000 nodes.
C1_NodeLimit ==
    phase = "done"
    => /\ result.count <= MAX_NODES
       /\ (src[2][2] + 1 > MAX_NODES /\ (rules = Basic \/ src[2][1] = 1))
          => result.err.code = InvalidASN1Object

----------------------------------------------------------------------------
(* Fixed-width integers: a value of the type is serialized, or an encoding *)
(* is drawn, and the encoding is decoded into the type under DER.          *)

IntTypes ==
    {"i8", "i16", "i32", "i64", "i128", "isize",
     "u8", "u16", "u32", "u64", "u128", "usize"}

\* The types of impl_der_for_signed_int!; the others are unsigned.
signed_types == {"i8", "i16", "i32", "i64", "i128", "isize"}

\* The width of a type in bits, isize and usize being 64 bits wide.
type_bits(ty) ==
    CASE ty \in {"i8", "u8"} -> 8
      [] ty \in {"i16", "u16"} -> 16
      [] ty \in {"i32", "u32"} -> 32
      [] ty \in {"i64", "u64", "isize", "usize"} -> 64
      [] ty \in {"i128", "u128"} -> 128

\* A variant of the range test that takes a negative value by its
\* magnitude for an unsigned type; the range property distinguishes it.
fits_magnitude(v, ty) ==
    IF ty \in signed_types
    THEN type_bits(ty) >= 32
         \/ (-Pow2(type_bits(ty) - 1) <= v /\ v < Pow2(type_bits(ty) - 1))
    ELSE type_bits(ty) >= 32 \/ (IF v < 0 THEN -v ELSE v) < Pow2(type_bits(ty))

\* BigInt::to_i8 .. to_usize is Some: the value lies in the type's range.
\* The values decoded here have at most four content octets, so they lie
\* within 32 bits and every one fits a signed type of 32 bits or more.
fits(v, ty) ==
    IF ty \in signed_types
    THEN type_bits(ty) >= 32
         \/ (-Pow2(type_bits(ty) - 1) <= v /\ v < Pow2(type_bits(ty) - 1))
    ELSE v >= 0 /\ (type_bits(ty) >= 32 \/ v < Pow2(type_bits(ty)))

\* from_der_node_with_identifier of a fixed-width type once the
\* ASN1Integer is decoded: the ? on it, then the conversion.  line!() of
\* asn1_err! inside the macro is the line of the macro's invocation.
fixed_from_integer(decoded, ty) ==
    IF decoded.err # Ok THEN decoded
    ELSE IF ~fits(decoded.value, ty)
    THEN IntegerResult(ASN1Error(ValueOutOfRange,
                                 IF ty \in signed_types THEN 260 ELSE 269), 0)
    ELSE decoded

InitFixed ==
    /\ target \in IntTypes
    /\ src \in {s \in IntSources :
                   /\ s[1] = "value" => fits(s[2][1], target)
                   /\ s[1] = "tlv" => s[2][2] = 0}
    /\ phase = (IF src[1] = "value" THEN "value" ELSE "input")
    /\ value = (IF src[1] = "value" THEN src[2][1] ELSE 0)
    /\ data = (IF src[1] = "value" THEN <<>> ELSE IntTlv(src[2]))
    /\ rules = "none"
    /\ result = IntegerResult(Ok, 0)
    /\ out = <<>>

\* DERSerializable::serialize of a fixed-width value, by a fresh
\* Serializer: the ASN1Integer of the value is serialized.
SerializeFixed ==
    /\ phase = "value"
    /\ data' = serialize_integer(value)
    /\ phase' = "input"
    /\ UNCHANGED <<src, rules, result, value, out, target>>

\* DERParseable::from_der_bytes(data) of the fixed-width type.
DecodeFixedDER ==
    /\ phase = "input"
    /\ result' = fixed_from_integer(
                      integer_from_der_node(root_node(der_parse(data))), target)
    /\ rules' = Distinguished
    /\ phase' = "decoded"
    /\ UNCHANGED <<src, data, value, out, target>>

NextFixed == SerializeFixed \/ DecodeFixedDER

SpecFixed == InitFixed /\ [][NextFixed]_vars

\* The range of a type, as far as the values of at most 32 bits reach.
InRange(v, ty) ==
    CASE ty = "i8" -> v \in -128..127
      [] ty = "i16" -> v \in -32768..32767
      [] ty = "u8" -> v \in 0..255
      [] ty = "u16" -> v \in 0..65535
      [] ty \in {"u32", "u64", "u128", "usize"} -> v >= 0
      [] OTHER -> TRUE

\* What ASN1Integer's own DER decoder makes of the input.
AsInteger == integer_from_der_node(root_node(der_parse(data)))

\* C11: decoding an INTEGER into a fixed-width integer type returns the
\* value when it lies in the type's range and fails with ValueOutOfRange
\* otherwise, a negative value into an unsigned type included; an error of
\* the INTEGER decode itself is reported as it is; and a value of the type
\* that was serialized is decoded to itself.
C11_FixedWidth ==
    phase = "decoded"
    => /\ AsInteger.err # Ok => result.err = AsInteger.err
       /\ (AsInteger.err = Ok /\ InRange(AsInteger.value, target))
          => result = IntegerResult(Ok, AsInteger.value)
       /\ (AsInteger.err = Ok /\ ~InRange(AsInteger.value, target))
          => result.err.code = ValueOutOfRange
       /\ src[1] = "value" => result = IntegerResult(Ok, value)

\* The INTEGER -1 has been refused for the type u8.
C11_Witness ==
    /\ phase = "decoded" /\ target = "u8"
    /\ data = <<2, 1, 255>>
    /\ result.err.code = ValueOutOfRange

----------------------------------------------------------------------------
(* BOOLEAN: a value is serialized, or an encoding is drawn, and the        *)
(* encoding is decoded under DER or BER.                                   *)

\* The longest content drawn, and the octets it is drawn from: the two
\* canonical octets, other non-zero ones, and 0x01, which is also the
\* BOOLEAN identifier and the length of a child.
MaxBoolLen == 3

BoolOctets == {0, 1, 127, 128, 255}

\* The encodings drawn: BOOLEAN_ID, constructed BOOLEAN and INTEGER
\* identifiers before a content.
BoolSources ==
    {<<"bool", <<b>>>> : b \in {TRUE, FALSE}}
    \cup {<<"tlv", <<id>> \o c>> :
              id \in {1, 33, 2}, c \in OctetStrings(BoolOctets, MaxBoolLen)}

InitBool ==
    /\ src \in BoolSources
    /\ phase = (IF src[1] = "bool" THEN "value" ELSE "input")
    /\ value = (IF src[1] = "bool" THEN src[2][1] ELSE FALSE)
    /\ data = (IF src[1] = "bool" THEN <<>>
               ELSE Tlv(src[2][1], SubSeq(src[2], 2, Len(src[2]))))
    /\ rules = "none"
    /\ result = Decoded(Ok, FALSE)
    /\ out = <<>>
    /\ target = "ASN1Boolean"

SerializeBoolean ==
    /\ phase = "value"
    /\ data' = serialize_boolean(value)
    /\ phase' = "input"
    /\ UNCHANGED <<src, rules, result, value, out, target>>

\* T::from_der_bytes(data) of the type drawn.
DecodeDER ==
    /\ phase = "input"
    /\ result' = from_root(target, Distinguished, root_node(der_parse(data)))
    /\ rules' = Distinguished
    /\ phase' = "decoded"
    /\ UNCHANGED <<src, data, value, out, target>>

\* T::from_ber_node(ber::parse(data)?) of the type drawn.
DecodeBER ==
    /\ phase = "input"
    /\ result' = from_root(target, Basic, root_node(ber_parse(data)))
    /\ rules' = Basic
    /\ phase' = "decoded"
    /\ UNCHANGED <<src, data, value, out, target>>

NextBool == SerializeBoolean \/ DecodeDER \/ DecodeBER

SpecBool == InitBool /\ [][NextBool]_vars

\* The encoding drawn carries the BOOLEAN identifier and has been parsed
\* into a node; its form, and its content when it is primitive.
DrawnBoolean ==
    /\ phase = "decoded" /\ src[1] = "tlv" /\ src[2][1] \in {1, 33}
    /\ parse_under(rules, data).err = Ok

DrawnOctets == SubSeq(src[2], 2, Len(src[2]))

\* What C12 says of a primitive node, of the two rule sets and of the
\* encoder.
BooleanValues ==
    /\ (DrawnBoolean /\ src[2][1] = 1 /\ Len(DrawnOctets) # 1)
       => result.err.code = InvalidASN1Object
    /\ (DrawnBoolean /\ src[2][1] = 1 /\ Len(DrawnOctets) = 1)
       => IF DrawnOctets[1] = 0 THEN result = Decoded(Ok, FALSE)
          ELSE IF DrawnOctets[1] = 255 \/ rules = Basic
          THEN result = Decoded(Ok, TRUE)
          ELSE result.err.code = InvalidASN1Object
    /\ (src[1] = "bool" /\ phase # "value")
       => /\ data = <<1, 1, IF value THEN 255 ELSE 0>>
          /\ phase = "decoded" => result = Decoded(Ok, value)

\* C12, as the specification states it: BOOLEAN decoding requires a
\* primitive node whose content is exactly one octet, and fails with
\* InvalidASN1Object otherwise; under DER 0x00 is false, 0xFF is true and
\* every other octet is refused with InvalidASN1Object; under BER 0x00 is
\* false and every other octet is true; the encoder emits 0x00 or 0xFF.
C12_AsStated ==
    /\ BooleanValues
    /\ (DrawnBoolean /\ src[2][1] = 33)
       => result.err.code = InvalidASN1Object

\* C12, amended: as stated for a primitive node, whose content must be
\* exactly one octet (InvalidASN1Object otherwise); a constructed node with
\* the BOOLEAN identifier is refused with UnexpectedFieldType under both
\* rule sets.
C12_Boolean ==
    /\ BooleanValues
    /\ (DrawnBoolean /\ src[2][1] = 33)
       => result.err.code = UnexpectedFieldType

\* Under BER the octet 0x01 has been decoded as true.
C12_Witness ==
    /\ phase = "decoded" /\ rules = Basic
    /\ data = <<1, 1, 1>>
    /\ result = Decoded(Ok, TRUE)

----------------------------------------------------------------------------
(* BIT STRING: a primitive content, or a list of segments for a            *)
(* constructed one, is drawn and decoded under DER or BER.                 *)

\* The longest primitive content drawn and the octets it is drawn from.
MaxBitLen == 3

BitOctets == {0, 1, 2, 7, 8, 128}

\* The most segments of a constructed BIT STRING drawn, and the segments:
\* primitive BIT STRINGs without content, without data, with and without
\* unused bits, with too many of them; an OCTET STRING; and a constructed
\* BIT STRING of one segment.
MaxSegments == 3

BitSegments ==
    {Tlv(3, c) : c \in {<<>>, <<0>>, <<5>>, <<0, 170>>, <<1, 2>>, <<1, 1>>,
                         <<8, 0>>}}
    \cup {Tlv(4, <<0>>), Tlv(35, Tlv(3, <<0, 85>>))}

\* The byte strings of a list, one after the other.
RECURSIVE Flatten(_)
Flatten(list) == IF list = <<>> THEN <<>> ELSE Head(list) \o Flatten(Tail(list))

BitSources ==
    {<<"primitive", c>> : c \in OctetStrings(BitOctets, MaxBitLen)}
    \cup {<<"constructed", segs>> : segs \in OctetStrings(BitSegments, MaxSegments)}

InitBits ==
    /\ src \in BitSources
    /\ data = (IF src[1] = "primitive" THEN Tlv(3, src[2])
               ELSE Tlv(35, Flatten(src[2])))
    /\ phase = "input"
    /\ rules = "none"
    /\ result = Decoded(Ok, NoBits)
    /\ value = 0
    /\ out = <<>>
    /\ target = "ASN1BitString"

NextBits == DecodeDER \/ DecodeBER

SpecBits == InitBits /\ [][NextBits]_vars

\* 2^u for the unused-bit counts u = 0..7.
LowBits(u) == <<1, 2, 4, 8, 16, 32, 64, 128>>[u + 1]

\* The content c of a primitive BIT STRING is what C13 admits.
AdmittedBits(c) ==
    /\ Len(c) >= 1
    /\ c[1] <= 7
    /\ Len(c) = 1 => c[1] = 0
    /\ Len(c) > 1 => c[Len(c)] % LowBits(c[1]) = 0

\* C13: DER decoding of a primitive BIT STRING succeeds exactly when the
\* content is not empty, its first octet u is at most 7, u is 0 when no
\* data octets follow, and the low u bits of the last data octet are zero;
\* the result is then the data octets and u; every other content is
\* refused with InvalidASN1Object.
C13_BitStringDER ==
    (phase = "decoded" /\ rules = Distinguished /\ src[1] = "primitive")
    => IF AdmittedBits(src[2])
       THEN result = Decoded(Ok, ASN1BitString(Tail(src[2]), src[2][1]))
       ELSE result.err.code = InvalidASN1Object

\* DER has decoded 03 02 01 02 to the octet 02 with one unused bit.
C13_Witness ==
    /\ phase = "decoded" /\ rules = Distinguished
    /\ data = <<3, 2, 1, 2>>
    /\ result = Decoded(Ok, ASN1BitString(<<2>>, 1))

\* The data octets of the primitive segments i.. of a list.
RECURSIVE SegmentData(_, _)
SegmentData(segs, i) ==
    IF i > Len(segs) THEN <<>>
    ELSE SubSeq(segs[i], 4, Len(segs[i])) \o SegmentData(segs, i + 1)

\* A constructed BIT STRING of primitive BIT STRING segments has been
\* decoded under BER.
SegmentsDecoded ==
    /\ phase = "decoded" /\ rules = Basic /\ src[1] = "constructed"
    /\ \A i \in 1..Len(src[2]) : src[2][i][1] = 3

----------------------------------------------------------------------------
(* OCTET STRING and the character strings: the children of a constructed   *)
(* one are drawn and the encoding is decoded under DER or BER.             *)

StrTypes == {"ASN1OctetString"} \cup StringTypes

\* The tag number of a type, and the one of the other type its foreign
\* child carries.
StrTag(ty) ==
    CASE ty = "ASN1OctetString" -> 4
      [] ty = "ASN1UTF8String" -> 12
      [] ty = "ASN1PrintableString" -> 19
      [] ty = "ASN1IA5String" -> 22
      [] ty = "ASN1NumericString" -> 18

ForeignTag(ty) == IF ty = "ASN1IA5String" THEN 19 ELSE 22

\* The contents of the children drawn: nothing, "1", "AB", "!", the two
\* octets of U+00E9, and each of them alone.
StrContents == {<<>>, <<49>>, <<65, 66>>, <<33>>, <<195, 169>>, <<195>>, <<169>>}

\* The most children drawn, and the children: primitive ones of the type,
\* one of another type, and a constructed one of the type.
MaxChildren == 3

StrSegments(ty) ==
    {Tlv(StrTag(ty), c) : c \in StrContents}
    \cup {Tlv(ForeignTag(ty), <<65>>),
          Tlv(32 + StrTag(ty), Tlv(StrTag(ty), <<49>>))}

InitStr ==
    /\ target \in StrTypes
    /\ src \in {<<"constructed", segs>> :
                   segs \in OctetStrings(StrSegments(target), MaxChildren)}
    /\ data = Tlv(32 + StrTag(target), Flatten(src[2]))
    /\ phase = "input"
    /\ rules = "none"
    /\ result = Decoded(Ok, <<>>)
    /\ value = 0
    /\ out = <<>>

NextStr == DecodeDER \/ DecodeBER

SpecStr == InitStr /\ [][NextStr]_vars

\* The content of a child drawn.
ChildContent(seg) == SubSeq(seg, 3, Len(seg))

\* The child is a primitive node of the type whose content the type takes.
Accepted(seg) ==
    /\ seg[1] = StrTag(target)
    /\ target \in StringTypes
        => from_utf8(ChildContent(seg)) /\ validation(target, ChildContent(seg))

\* The child carries another identifier than the type's.
Foreign(seg) == seg[1] \notin {StrTag(target), 32 + StrTag(target)}

\* The contents of the children i.. of a list.
RECURSIVE ChildContents(_, _)
ChildContents(segs, i) ==
    IF i > Len(segs) THEN <<>>
    ELSE ChildContent(segs[i]) \o ChildContents(segs, i + 1)

\* A constructed string has been decoded under the rules r.
StrDecoded(r) == phase = "decoded" /\ rules = r /\ target \in StrTypes

\* The children all being accepted, BER yields their contents in order.
Concatenated ==
    (StrDecoded(Basic) /\ \A i \in 1..Len(src[2]) : Accepted(src[2][i]))
    => result = Decoded(Ok, ChildContents(src[2], 1))

\* DER refuses the constructed form.
ConstructedRefused ==
    StrDecoded(Distinguished) => result.err.code = UnexpectedFieldType

\* C15 as stated: under BER a constructed OCTET STRING or character
\* string decodes to its children's contents in order, any child with a
\* different identifier fails the decode with UnexpectedFieldType, and DER
\* refuses the constructed form with UnexpectedFieldType.
C15_AsStated ==
    /\ Concatenated
    /\ ConstructedRefused
    /\ (StrDecoded(Basic) /\ \E i \in 1..Len(src[2]) : Foreign(src[2][i]))
       => result.err.code = UnexpectedFieldType

\* C15: under BER a constructed OCTET STRING or character string decodes
\* to its children's contents in order; the children are decoded in order
\* and the first one that fails decides the error: UnexpectedFieldType
\* when it carries a different identifier, InvalidStringRepresentation
\* when it is a primitive child of the type whose content the type does
\* not take; DER refuses the constructed form with UnexpectedFieldType.
C15_ConstructedStrings ==
    /\ Concatenated
    /\ ConstructedRefused
    /\ StrDecoded(Basic)
       => \A i \in 1..Len(src[2]) :
             (\A j \in 1..(i - 1) : Accepted(src[2][j]))
             => /\ Foreign(src[2][i])
                   => result.err.code = UnexpectedFieldType
                /\ (src[2][i][1] = StrTag(target) /\ ~Accepted(src[2][i]))
                   => result.err.code = InvalidStringRepresentation

\* BER has put "AB" and "1" together, and a foreign child behind them has
\* failed another decode.
C15_Witness ==
    /\ StrDecoded(Basic) /\ target = "ASN1PrintableString"
    /\ \/ /\ src[2] = <<<<19, 2, 65, 66>>, <<19, 1, 49>>>>
          /\ result = Decoded(Ok, <<65, 66, 49>>)
       \/ /\ src[2] = <<<<19, 1, 49>>, <<22, 1, 65>>>>
          /\ result.err.code = UnexpectedFieldType

----------------------------------------------------------------------------
(* GeneralizedTime and UTCTime: the segments of a content are drawn, put   *)
(* in one primitive node or in the children of a constructed one, and      *)
(* decoded under DER or BER.                                               *)

TimeTag(ty) == IF ty = "GeneralizedTime" THEN 24 ELSE 23

\* The segments drawn: "2025", "25", "0229", "0101", "1231", "000000Z",
\* "235959Z" and "0000".
TimeSegments ==
    {<<50, 48, 50, 53>>, <<50, 53>>, <<48, 50, 50, 57>>, <<48, 49, 48, 49>>,
     <<49, 50, 51, 49>>, <<48, 48, 48, 48, 48, 48, 90>>,
     <<50, 51, 53, 57, 53, 57, 90>>, <<48, 48, 48, 48>>}

\* The most segments drawn.
MaxTimeSegments == 3

\* The segments, each in a primitive node of the tag.
RECURSIVE Wrapped(_, _)
Wrapped(tag, segs) ==
    IF segs = <<>> THEN <<>>
    ELSE Tlv(tag, Head(segs)) \o Wrapped(tag, Tail(segs))

TimeSources ==
    {<<form, segs>> : form \in {"primitive", "constructed"},
                      segs \in OctetStrings(TimeSegments, MaxTimeSegments)}

InitTime ==
    /\ target \in TimeTypes
    /\ src \in TimeSources
    /\ data = (IF src[1] = "primitive"
               THEN Tlv(TimeTag(target), Flatten(src[2]))
               ELSE Tlv(32 + TimeTag(target), Wrapped(TimeTag(target), src[2])))
    /\ phase = "input"
    /\ rules = "none"
    /\ result = Decoded(Ok, NoTime)
    /\ value = 0
    /\ out = <<>>

NextTime == DecodeDER \/ DecodeBER

SpecTime == InitTime /\ [][NextTime]_vars

\* The decode of the primitive node that holds the segments' contents one
\* after the other.
Denoted ==
    from_root(target, Distinguished,
              root_node(der_parse(Tlv(TimeTag(target), Flatten(src[2])))))

\* C16: under BER a constructed UTCTime or GeneralizedTime whose children
\* are primitive segments of the type decodes to the time that the
\* segments' contents, one after the other, denote; under DER the
\* constructed form is rejected.
C16_ConstructedTime ==
    (phase = "decoded" /\ target \in TimeTypes /\ src[1] = "constructed")
    => IF rules = Distinguished THEN result.err # Ok
       ELSE Denoted.err = Ok => result = Denoted

----------------------------------------------------------------------------
(* OBJECT IDENTIFIER: a component list is drawn, made into an OID, listed  *)
(* again, serialized and decoded; or a content, or a long-form tag with a  *)
(* leading 0x80, is drawn and decoded.                                     *)

\* The most components drawn and the values they take.
MaxComponents == 3

OidValues == {U64From(n) : n \in {0, 1, 2, 3, 39, 40, 128}} \cup {U64Max}

\* The longest content drawn from OidOctets; three contents of ten and
\* eleven octets are drawn too, two of them past 64 bits.
MaxOidLen == 3

OidOctets == {0, 1, 42, 127, 128, 129, 255}

LongContents ==
    {Repeat(<<255>>, 9) \o <<127>>, <<129>> \o Repeat(<<255>>, 8) \o <<127>>,
     Repeat(<<255>>, 11)}

\* The last octet of the long-form tags drawn, each behind 1F 80.
TagTails == {30, 31, 42, 127}

\* A component list comes with the build: with overflow checks or without.
OidSources ==
    {<<"components", c, checks>> :
        c \in OctetStrings(OidValues, MaxComponents), checks \in {TRUE, FALSE}}
    \cup {<<"content", c>> :
            c \in OctetStrings(OidOctets, MaxOidLen) \cup LongContents}
    \cup {<<"tag", n>> : n \in TagTails}

InitOid ==
    /\ src \in OidSources
    /\ data = (CASE src[1] = "components" -> <<>>
                 [] src[1] = "content" -> Tlv(6, src[2])
                 [] src[1] = "tag" -> <<31, 128, src[2], 0>>)
    /\ phase = (IF src[1] = "components" THEN "components" ELSE "input")
    /\ rules = "none"
    /\ result = Decoded(Ok, <<>>)
    /\ value = 0
    /\ out = Components(Ok, <<>>)
    /\ target = "ASN1ObjectIdentifier"

\* ASN1ObjectIdentifier::new(components).
NewOid ==
    /\ phase = "components"
    /\ result' = oid_new(src[2], src[3])
    /\ phase' = "constructed"
    /\ UNCHANGED <<src, data, rules, value, out, target>>

\* oid.oid_components() of the OID made or decoded.
OidComponents ==
    /\ phase \in {"constructed", "decoded"}
    /\ result.err = Ok
    /\ out' = oid_components(result.value)
    /\ phase' = "listed"
    /\ UNCHANGED <<src, data, rules, result, value, target>>

\* Serializer::serialize(&oid) with a fresh Serializer.
SerializeOid ==
    /\ phase = "constructed"
    /\ result.err = Ok
    /\ data' = append_node(<<>>, OBJECT_IDENTIFIER, FALSE, result.value)
    /\ phase' = "input"
    /\ UNCHANGED <<src, rules, result, value, out, target>>

NextOid == NewOid \/ OidComponents \/ SerializeOid \/ DecodeDER \/ DecodeBER

SpecOid == InitOid /\ [][NextOid]_vars

\* C17: new accepts a component list exactly when it has at least two
\* components, the first is 0, 1 or 2, and the second is at most 39 when
\* the first is 0 or 1; fewer than two components fail with
\* TooFewOIDComponents, the other violations with InvalidASN1Object.
C17_Constructor ==
    phase = "constructed"
    => IF Len(src[2]) < 2 THEN result.err.code = TooFewOIDComponents
       ELSE IF \/ U64Greater(src[2][1], 2)
               \/ U64Less(src[2][1], 2) /\ U64Greater(src[2][2], 39)
       THEN result.err.code = InvalidASN1Object
       ELSE result.err = Ok

\* C18: the components listed from an OID that new has accepted, be it
\* the OID made or the one decoded from its DER encoding, are the
\* components it was made of.
C18_RoundTrip ==
    (phase = "listed" /\ src[1] = "components")
    => out = Components(Ok, src[2])

\* A sub-identifier of the content c starts at position p.
StartsAt(c, p) == p = 1 \/ c[p - 1] < 128

\* Some sub-identifier of c starts with the octet 0x80.
LeadingZero(c) == \E p \in 1..Len(c) : StartsAt(c, p) /\ c[p] = 128

\* The last octet of c has the continuation bit set.
Unfinished(c) == c # <<>> /\ c[Len(c)] >= 128

\* Some sub-identifier of c passes 64 bits: ten octets, the first of them
\* with more than one bit, or eleven.
PastU64(c) ==
    \E p \in 1..Len(c) :
       /\ StartsAt(c, p)
       /\ \E n \in {10, 11} :
             /\ p + n - 1 <= Len(c)
             /\ \A k \in p..(p + n - 2) : c[k] >= 128
             /\ n = 10 => c[p] % 128 >= 2

\* An OBJECT IDENTIFIER content has been decoded, under DER or BER.
ContentDecoded == phase = "decoded" /\ src[1] = "content"

\* What the tag-number reader does with a leading 0x80: 1F 80 n is a node
\* of tag number n, which the OID decoder then refuses for its identifier.
LeadingZeroTag ==
    (phase = "decoded" /\ src[1] = "tag" /\ src[2] >= 31)
    => /\ result.err = ASN1Error(UnexpectedFieldType, 160)
       /\ read_asn1_discipline_uint(data, View(1, 3)).err = Ok
       /\ read_asn1_discipline_uint(data, View(1, 3)).value = U64From(src[2])

\* C19 as stated: a content with a sub-identifier that starts with 0x80 is
\* refused with InvalidASN1Object, a content whose last octet has the
\* continuation bit set with TruncatedASN1Field, an empty content with
\* InvalidASN1Object; the tag-number reader takes a leading 0x80.
C19_AsStated ==
    /\ ContentDecoded
       => /\ LeadingZero(src[2]) => result.err.code = InvalidASN1Object
          /\ Unfinished(src[2]) => result.err.code = TruncatedASN1Field
          /\ src[2] = <<>> => result.err.code = InvalidASN1Object
    /\ LeadingZeroTag

\* C19: a content that is empty, or in which a sub-identifier starts with
\* 0x80 or passes 64 bits, is refused with InvalidASN1Object; of the other
\* contents the one whose last octet has the continuation bit set is
\* refused with TruncatedASN1Field and the rest is accepted as it is; the
\* tag-number reader takes a leading 0x80.
C19_SubIdentifiers ==
    /\ ContentDecoded
       => IF src[2] = <<>> \/ LeadingZero(src[2]) \/ PastU64(src[2])
          THEN result.err.code = InvalidASN1Object
          ELSE IF Unfinished(src[2])
          THEN result.err.code = TruncatedASN1Field
          ELSE result = Decoded(Ok, src[2])
    /\ LeadingZeroTag

\* DER has refused 06 02 80 01 for the 0x80 that starts its sub-identifier.
C19_Witness ==
    /\ ContentDecoded /\ rules = Distinguished
    /\ data = <<6, 2, 128, 1>>
    /\ result.err = ASN1Error(InvalidASN1Object, 255)

----------------------------------------------------------------------------
(* OPTIONAL: the children of a SEQUENCE are drawn; a cursor over them is   *)
(* moved by next and by Option<T>::from_der_iterator.  `value` is the      *)
(* index the cursor is at.                                                 *)

OptTypes == {"ASN1Boolean", "ASN1Integer", "Vec<ASN1Boolean>"}

\* The most children drawn, and the children: a BOOLEAN, a BOOLEAN that
\* DER refuses, an INTEGER, a SEQUENCE of a BOOLEAN, a SEQUENCE of a
\* BOOLEAN and an INTEGER, and a constructed node with the BOOLEAN
\* identifier.
MaxFields == 2

OptSegments ==
    {<<1, 1, 255>>, <<1, 1, 7>>, <<2, 1, 5>>, <<48, 3, 1, 1, 0>>,
     <<48, 6, 1, 1, 255, 2, 1, 1>>, <<33, 3, 1, 1, 0>>}

\* The cursor over the children of the SEQUENCE, at the index at.
cursor(at) ==
    [into_iter(root_node(der_parse(data)).node[1].content) EXCEPT !.start = at]

InitOpt ==
    /\ target \in OptTypes
    /\ src \in {<<"sequence", c>> : c \in OctetStrings(OptSegments, MaxFields)}
    /\ data = Tlv(48, Flatten(src[2]))
    /\ phase = "cursor"
    /\ rules = Distinguished
    /\ result = Decoded(Ok, None)
    /\ value = 2
    /\ out = <<>>

\* iter.next(), as the decoder of a field before the OPTIONAL one calls it.
NextNode ==
    /\ phase \in {"cursor", "optional"}
    /\ peek(cursor(value)) # None
    /\ value' = advance(cursor(value)).start
    /\ phase' = "cursor"
    /\ UNCHANGED <<src, data, rules, result, out, target>>

\* Option::<T>::from_der_iterator(iter).
OptionFromIterator ==
    /\ phase \in {"cursor", "optional"}
    /\ result' = Decoded(option_from_der_iterator(target, cursor(value)).err,
                         option_from_der_iterator(target, cursor(value)).value)
    /\ value' = option_from_der_iterator(target, cursor(value)).iter.start
    /\ phase' = "optional"
    /\ UNCHANGED <<src, data, rules, out, target>>

NextOpt == NextNode \/ OptionFromIterator

SpecOpt == InitOpt /\ [][NextOpt]_vars

\* The nodes of a child drawn: itself and its descendants.
NodesOf(seg) == Len(der_parse(seg).nodes)

\* The index of the first node of the child k of the SEQUENCE, the root
\* being node 1; k may be one past the last child.
RECURSIVE IndexOfChild(_)
IndexOfChild(k) ==
    IF k = 1 THEN 2 ELSE IndexOfChild(k - 1) + NodesOf(src[2][k - 1])

\* The cursor is at the child k, or past the last child when there is no
\* child k.
AtChild(k) == k \in 1..(Len(src[2]) + 1) /\ value = IndexOfChild(k)

\* The child carries the identifier of the type drawn, whatever its form.
OfTheType(seg) ==
    seg[1] % 32 = (CASE target = "ASN1Boolean" -> 1
                     [] target = "ASN1Integer" -> 2
                     [] target = "Vec<ASN1Boolean>" -> 16)

\* The decoder of the type on a child by itself.
Alone(seg) == from_root(target, Distinguished, root_node(der_parse(seg)))

\* What C20 says of a call made with the cursor at the child k.
OptionalEffect(k) ==
    IF k > Len(src[2]) \/ ~OfTheType(src[2][k])
    THEN /\ result' = Decoded(Ok, None)
         /\ value' = value
    ELSE /\ value' = IndexOfChild(k + 1)
         /\ result' = (IF Alone(src[2][k]).err # Ok
                       THEN Decoded(Alone(src[2][k]).err, None)
                       ELSE Decoded(Ok, Some(Alone(src[2][k]).value)))

\* C20: Option<T>::from_der_iterator returns absent and leaves the cursor
\* where it was when the cursor is empty or the next node's identifier is
\* not T's; otherwise it moves the cursor past that node and its subtree
\* and returns what T's decoder returns on the node, an error of the
\* decoder included.
C20_Optional ==
    [][OptionFromIterator
       => \A k \in 1..(MaxFields + 2) : AtChild(k) => OptionalEffect(k)]_vars

\* The cursor has passed a SEQUENCE of one BOOLEAN and its subtree and the
\* list of that BOOLEAN is returned, or it has passed a BOOLEAN that DER
\* refuses and the error is returned.
C20_Witness ==
    /\ phase = "optional"
    /\ \/ /\ target = "Vec<ASN1Boolean>"
          /\ src[2] = <<<<2, 1, 5>>, <<48, 3, 1, 1, 0>>>>
          /\ value = 5
          /\ result = Decoded(Ok, Some(<<FALSE>>))
       \/ /\ target = "ASN1Boolean"
          /\ src[2] = <<<<1, 1, 7>>, <<2, 1, 5>>>>
          /\ value = 3
          /\ result.err.code = InvalidASN1Object

----------------------------------------------------------------------------
(* The SEQUENCE helper: a node that holds the children drawn is parsed and *)
(* handed to der::sequence or ber::sequence with an expected identifier    *)
(* and a builder.  src = <<"sequence", children, first byte of the node,   *)
(* expected identifier, builder>>.                                         *)

\* The first bytes drawn for the node: a SEQUENCE, a SET, a primitive node
\* with the SEQUENCE identifier, and a constructed OCTET STRING.
SeqHeads == {48, 49, 16, 36}

\* The most calls of next a builder makes.
MaxTake == 3

Builders ==
    [take : 0..MaxTake, err : {Ok, ASN1Error(ValueOutOfRange, 0)}]

InitSeq ==
    /\ target = "sequence"
    /\ src \in {<<"sequence", c, h, e, b>> :
                   c \in OctetStrings(OptSegments, MaxFields),
                   h \in SeqHeads, e \in {SEQUENCE, SET}, b \in Builders}
    /\ data = Tlv(src[3], Flatten(src[2]))
    /\ phase = "input"
    /\ rules \in EncodingRules
    /\ result = NoResult
    /\ value = <<>>
    /\ out = <<>>

\* der::sequence(der::parse(data)?, identifier, builder).
SequenceDER ==
    /\ phase = "input" /\ rules = Distinguished
    /\ result' = (IF root_node(der_parse(data)).err # Ok
                  THEN Decoded(root_node(der_parse(data)).err, <<>>)
                  ELSE sequence(root_node(der_parse(data)).node[1],
                                src[4], src[5]))
    /\ phase' = "decoded"
    /\ UNCHANGED <<src, data, rules, value, out, target>>

\* ber::sequence(ber::parse(data)?, identifier, builder).
SequenceBER ==
    /\ phase = "input" /\ rules = Basic
    /\ result' = (IF root_node(ber_parse(data)).err # Ok
                  THEN Decoded(root_node(ber_parse(data)).err, <<>>)
                  ELSE sequence(root_node(ber_parse(data)).node[1],
                                src[4], src[5]))
    /\ phase' = "decoded"
    /\ UNCHANGED <<src, data, rules, value, out, target>>

NextSeq == SequenceDER \/ SequenceBER

SpecSeq == InitSeq /\ [][NextSeq]_vars

\* The identifier a child drawn carries.
ChildIdentifier(seg) == ASN1Identifier(U64From(seg[1] % 32), Universal)

\* The identifiers of the first n children drawn.
ChildIdentifiers(n) == [i \in 1..n |-> ChildIdentifier(src[2][i])]

\* C21: the SEQUENCE helper fails with UnexpectedFieldType when the node's
\* identifier is not the expected one or the node is primitive; otherwise
\* the builder's error is returned unchanged, a builder that succeeds
\* without taking every child gives InvalidASN1Object, and a builder that
\* succeeds having taken every child gives its value.
C21_Sequence ==
    (target = "sequence" /\ phase = "decoded") =>
        IF ChildIdentifier(<<src[3]>>) # src[4] \/ src[3] < 32
        THEN result.err.code = UnexpectedFieldType
        ELSE IF src[5].err # Ok THEN result = Decoded(src[5].err, <<>>)
        ELSE IF src[5].take < Len(src[2])
        THEN result.err.code = InvalidASN1Object
        ELSE result = Decoded(Ok, ChildIdentifiers(Len(src[2])))

\* A SEQUENCE of two children went to a builder that took one and
\* succeeded, and the helper failed with InvalidASN1Object.
C21_Witness ==
    /\ target = "sequence" /\ phase = "decoded"
    /\ src[3] = 48 /\ src[4] = SEQUENCE /\ Len(src[2]) = 2
    /\ src[5] = [take |-> 1, err |-> Ok]
    /\ result = Decoded(ASN1Error(InvalidASN1Object, 106), <<>>)
----------------------------------------------------------------------------
(* DER within BER: an encoding of a domain type is drawn and decoded by    *)
(* the DER parser and decoder and by the BER ones.  `result` is what DER   *)
(* returns and `value` what BER returns.                                   *)

SubTypes ==
    {"ASN1Boolean", "ASN1Integer", "ASN1BitString", "ASN1OctetString",
     "ASN1Null", "ASN1ObjectIdentifier", "GeneralizedTime", "UTCTime"}
    \cup StringTypes

\* The identifier octet of the primitive form of a type.
SubTag(ty) ==
    CASE ty = "ASN1Boolean" -> 1
      [] ty = "ASN1Integer" -> 2
      [] ty = "ASN1BitString" -> 3
      [] ty = "ASN1Null" -> 5
      [] ty = "ASN1ObjectIdentifier" -> 6
      [] ty \in TimeTypes -> TimeTag(ty)
      [] ty \in StrTypes -> StrTag(ty)

\* The longest content drawn octet by octet.
MaxSubLen == 2

\* The contents drawn for a type.
SubContents(ty) ==
    CASE ty = "ASN1Boolean" -> OctetStrings(BoolOctets, MaxSubLen)
      [] ty = "ASN1Integer" -> OctetStrings(IntOctets, MaxSubLen)
      [] ty = "ASN1BitString" -> OctetStrings(BitOctets, MaxSubLen)
      [] ty = "ASN1Null" -> OctetStrings({0}, MaxSubLen)
      [] ty = "ASN1ObjectIdentifier" -> OctetStrings(OidOctets, MaxSubLen)
      [] ty \in TimeTypes ->
           {Flatten(s) : s \in OctetStrings(TimeSegments, MaxTimeSegments)}
      [] ty \in StrTypes -> StrContents

\* The forms a content is drawn in: primitive with the short length, with
\* the length in the form 0x81 n, with a byte after it, with the
\* identifier of another type, and in one segment of a constructed node of
\* definite or indefinite length.
SubForms ==
    {"primitive", "long", "trailing", "foreign", "constructed", "indefinite"}

SubEncoding(ty, form, c) ==
    CASE form = "primitive" -> Tlv(SubTag(ty), c)
      [] form = "long" -> <<SubTag(ty), 129, Len(c)>> \o c
      [] form = "trailing" -> Tlv(SubTag(ty), c) \o <<0>>
      [] form = "foreign" -> Tlv(IF SubTag(ty) = 4 THEN 12 ELSE 4, c)
      [] form = "constructed" -> Tlv(32 + SubTag(ty), Tlv(SubTag(ty), c))
      [] form = "indefinite" ->
           <<32 + SubTag(ty), 128>> \o Tlv(SubTag(ty), c) \o <<0, 0>>

InitSub ==
    /\ target \in SubTypes
    /\ src \in {<<form, c>> : form \in SubForms, c \in SubContents(target)}
    /\ data = SubEncoding(target, src[1], src[2])
    /\ phase = "input"
    /\ rules = "none"
    /\ result = Decoded(Ok, <<>>)
    /\ value = Decoded(Ok, <<>>)
    /\ out = <<>>

\* T::from_der_bytes(data) and T::from_ber_node(ber::parse(data)?) on the
\* same bytes.
DecodeUnderBoth ==
    /\ phase = "input"
    /\ result' = from_root(target, Distinguished, root_node(der_parse(data)))
    /\ value' = from_root(target, Basic, root_node(ber_parse(data)))
    /\ phase' = "decoded"
    /\ UNCHANGED <<src, data, rules, out, target>>

NextSub == DecodeUnderBoth

SpecSub == InitSub /\ [][NextSub]_vars

\* C22: whenever the DER parser and decoder of a domain type succeed on
\* some bytes with a value, the BER parser and decoder succeed on the same
\* bytes with the same value.
C22_DerWithinBer ==
    (phase = "decoded" /\ result.err = Ok) =>
        (value.err = Ok /\ value.value = result.value)

\* DER and BER have both decoded 01 01 FF to true.
C22_Witness ==
    /\ phase = "decoded" /\ target = "ASN1Boolean"
    /\ data = <<1, 1, 255>>
    /\ result = Decoded(Ok, TRUE) /\ value = Decoded(Ok, TRUE)
----------------------------------------------------------------------------
(* UTCTime: a value is drawn, serialized and decoded under DER.  src =     *)
(* <<"time", the value>>.                                                  *)

\* The fields drawn: years at both edges of the window 1950..2049 and
\* beyond them, and the first and last of the other fields.
UtcYears == {1900, 1949, 1950, 1999, 2000, 2023, 2049, 2050}

UtcTimes ==
    {t \in [year : UtcYears, month : {1, 2, 12}, day : {1, 28, 29, 31},
            hour : {0, 23}, minute : {0, 59}, second : {0, 59}] :
        valid_date_time(t)}

InitUtc ==
    /\ target = "UTCTime"
    /\ src \in {<<"time", t>> : t \in UtcTimes}
    /\ value = src[2]
    /\ data = <<>>
    /\ phase = "value"
    /\ rules = "none"
    /\ result = Decoded(Ok, NoTime)
    /\ out = <<>>

\* Serializer::new().serialize(&value), then serialized_bytes().
SerializeUtc ==
    /\ phase = "value"
    /\ data' = serialize_utc_time(value)
    /\ phase' = "input"
    /\ UNCHANGED <<src, rules, result, value, out, target>>

NextUtc == SerializeUtc \/ DecodeDER

SpecUtc == InitUtc /\ [][NextUtc]_vars

\* C23: decoding the DER encoding of a UTCTime value of whole seconds
\* returns the value, whatever its year.
C23_UtcRoundTrip ==
    (target = "UTCTime" /\ src[1] = "time" /\ phase = "decoded") =>
        result = Decoded(Ok, value)
----------------------------------------------------------------------------
(* The cursor: a SEQUENCE of the children drawn is parsed; the cursor over *)
(* the children of its root is read by next and peek, and the cursor of a  *)
(* constructed node that next returned is entered.  `result` is the parse  *)
(* result, `value` the cursor (the node it belongs to and its index range) *)
(* and `out` what the last call returned.                                  *)

\* The most children drawn and the children: an INTEGER, an empty
\* SEQUENCE, a SEQUENCE of an INTEGER, a SEQUENCE of a SEQUENCE of an
\* INTEGER and a NULL, and two SEQUENCEs of indefinite length.
MaxCurChildren == 3

CurSegments ==
    {<<2, 1, 5>>, <<48, 0>>, <<48, 3, 2, 1, 1>>,
     <<48, 7, 48, 3, 2, 1, 2, 5, 0>>, <<48, 128, 5, 0, 0, 0>>,
     <<48, 128, 48, 2, 0, 0>>}

InitCur ==
    /\ target = "cursor"
    /\ rules \in EncodingRules
    /\ src \in {<<"sequence", c>> : c \in OctetStrings(CurSegments, MaxCurChildren)}
    /\ data = Tlv(48, Flatten(src[2]))
    /\ parse_under(rules, data).err = Ok
    /\ result = parse_under(rules, data)
    /\ value = [owner |-> 1, start |-> 2, end |-> Len(result.nodes) + 1]
    /\ out = None
    /\ phase = "cursor"

\* The ASN1NodeCollectionIterator that `value` describes.
iterator(nodes, c) == [nodes |-> nodes, start |-> c.start, end |-> c.end]

\* iter.next().
CursorNext ==
    /\ target = "cursor"
    /\ out' = peek(iterator(result.nodes, value))
    /\ value' = [value EXCEPT
                   !.start = advance(iterator(result.nodes, value)).start]
    /\ phase' = "next"
    /\ UNCHANGED <<src, data, rules, result, target>>

\* iter.peek().
CursorPeek ==
    /\ target = "cursor"
    /\ out' = peek(iterator(result.nodes, value))
    /\ phase' = "peek"
    /\ UNCHANGED <<src, data, rules, result, value, target>>

\* collection.into_iter() on the content of the constructed node that next
\* has just returned.
CursorEnter ==
    /\ target = "cursor" /\ phase = "next"
    /\ out # None
    /\ out[1].content.kind = "Constructed"
    /\ value' = [owner |-> out[1].content.range[1] - 1,
                 start |-> into_iter(out[1].content).start,
                 end |-> into_iter(out[1].content).end]
    /\ out' = None
    /\ phase' = "cursor"
    /\ UNCHANGED <<src, data, rules, result, target>>

NextCur == CursorNext \/ CursorPeek \/ CursorEnter

SpecCur == InitCur /\ [][NextCur]_vars

\* The nodes of depth p + 1 inside the subtree of the node p: those behind
\* p with no node of p's depth or less between p and them.
ChildIndices(nodes, p) ==
    {j \in (p + 1)..Len(nodes) :
        /\ nodes[j].depth = nodes[p].depth + 1
        /\ \A k \in (p + 1)..j : nodes[k].depth > nodes[p].depth}

\* The children of the cursor's node that the cursor has not passed.
Remaining == {j \in ChildIndices(result.nodes, value.owner) : j >= value.start}

\* The first index behind i whose node is not deeper than the node i, or
\* the index behind the last node.
DescendantsEnd(nodes, i) ==
    IF \E j \in (i + 1)..Len(nodes) : nodes[j].depth <= nodes[i].depth
    THEN CHOOSE j \in (i + 1)..Len(nodes) :
            /\ nodes[j].depth <= nodes[i].depth
            /\ \A k \in (i + 1)..(j - 1) : nodes[k].depth > nodes[i].depth
    ELSE Len(nodes) + 1

\* The logical node of the node i: its identifier and encoding, and its
\* content slice or the cursor over its own descendants.
LogicalNode(nodes, i) ==
    [identifier |-> nodes[i].identifier,
     encoded_bytes |-> nodes[i].encoded_bytes,
     content |-> IF nodes[i].is_constructed
                 THEN [kind |-> "Constructed", nodes |-> nodes,
                       range |-> <<i + 1, DescendantsEnd(nodes, i)>>,
                       depth |-> nodes[i].depth]
                 ELSE [kind |-> "Primitive", bytes |-> nodes[i].data_bytes[1]]]

\* The least of a non-empty set of indices.
First(S) == CHOOSE j \in S : \A k \in S : j <= k

\* What the next call of next returns.
Upcoming ==
    IF Remaining = {} THEN None
    ELSE Some(LogicalNode(result.nodes, First(Remaining)))

\* C26: next on the child cursor of a constructed node yields the direct
\* children of the node inside its subtree, in order, each constructed
\* child with the cursor over its own descendants, and passes them one at
\* a time; peek returns what the following next returns and leaves the
\* cursor as it is; an exhausted cursor returns nothing to next and peek
\* and stays exhausted.
C26_Cursor ==
    [][/\ CursorNext =>
            /\ out' = Upcoming
            /\ Remaining' = Remaining \ {First(Remaining \cup {value.end})}
       /\ CursorPeek => (out' = Upcoming /\ value' = value)]_vars

\* next has returned the second child of the root, a SEQUENCE, with the
\* cursor over its own two descendants, and one child is left; or the
\* cursor of a SEQUENCE entered is exhausted and next has returned nothing.
C26_Witness ==
    /\ target = "cursor" /\ phase = "next"
    /\ \/ /\ src[2] = <<<<2, 1, 5>>, <<48, 7, 48, 3, 2, 1, 2, 5, 0>>, <<2, 1, 5>>>>
          /\ value = [owner |-> 1, start |-> 7, end |-> 8]
          /\ out # None
          /\ out[1].content.kind = "Constructed"
          /\ out[1].content.range = <<4, 7>>
       \/ /\ value.owner > 1 /\ value.start = value.end /\ out = None
----------------------------------------------------------------------------
(* Length fields written and read: a length is written by encode_length    *)
(* in front of some bytes and read back where minimal encoding is          *)
(* required, or a length field is drawn and read.  src = <<"length", n,    *)
(* the bytes behind the field>> or <<"field", bytes>>.                     *)

\* The lengths drawn: every one up to MaxSmallLength, and the edges of two,
\* three and four length octets.
MaxSmallLength == 300

Lengths ==
    (0..MaxSmallLength)
    \cup {65535, 65536, 16777215, 16777216, 2147483647}

\* The longest run of octets drawn behind the first octet of a field, the
\* octets, and the first octets.
MaxFieldLen == 3

FieldOctets == {0, 1, 127, 128, 255}

FirstOctets == {0, 5, 127, 128, 129, 130, 131, 132}

\* Fields of four, eight and nine length octets, at the edges of 32 and 64
\* bits.
LongFields ==
    {<<132, 1, 0, 0, 0>>, <<132, 0, 255, 255, 255>>,
     <<132, 255, 255, 255, 255>>, <<136>> \o Repeat(<<255>>, 8),
     <<136, 0>> \o Repeat(<<255>>, 7), <<136, 1>> \o Repeat(<<0>>, 7),
     <<137, 0>> \o Repeat(<<255>>, 8), <<137, 1>> \o Repeat(<<0>>, 8)}

EncSources ==
    {<<"length", n, t>> : n \in Lengths, t \in {<<>>, <<0>>, <<255, 1>>}}
    \cup {<<"field", <<f>> \o b>> :
             f \in FirstOctets, b \in OctetStrings(FieldOctets, MaxFieldLen)}
    \cup {<<"field", f \o t>> : f \in LongFields, t \in {<<>>, <<0>>}}

InitEnc ==
    /\ target = "length"
    /\ src \in EncSources
    /\ data = (IF src[1] = "length" THEN <<>> ELSE src[2])
    /\ phase = (IF src[1] = "length" THEN "value" ELSE "input")
    /\ value = (IF src[1] = "length" THEN src[2] ELSE 0)
    /\ rules = "none"
    /\ result = NoResult
    /\ out = <<>>

\* encode_length(value), written in front of the bytes that follow it.
EncodeLength ==
    /\ target = "length" /\ phase = "value"
    /\ data' = encode_length(value) \o src[3]
    /\ phase' = "input"
    /\ UNCHANGED <<src, rules, result, value, out, target>>

NextEnc == EncodeLength \/ ReadLengthMinimal

SpecEnc == InitEnc /\ [][NextEnc]_vars

\* The least number of octets that hold n, for n above 0.
RECURSIVE OctetsFor(_)
OctetsFor(n) == IF n < 256 THEN 1 ELSE 1 + OctetsFor(n \div 256)

\* The canonical length field of n: the octet n up to 127, else 0x80 | k
\* and the k octets of n, the most significant first, k the least number
\* of octets that hold n.
CanonicalLength(n) ==
    IF n <= 127 THEN <<n>>
    ELSE <<128 + OctetsFor(n)>>
         \o [i \in 1..OctetsFor(n) |-> (n \div Pow256(OctetsFor(n) - i)) % 256]

\* The octets of a 64-bit value without its leading zero octets.
RECURSIVE Strip(_)
Strip(v) == IF Len(v) > 1 /\ v[1] = 0 THEN Strip(Tail(v)) ELSE v

\* The canonical length field of a 64-bit value.
CanonicalField(v) ==
    IF U64Less(v, 128) THEN <<v[8]>> ELSE <<128 + Len(Strip(v))>> \o Strip(v)

\* C27: encode_length writes the canonical field of every length; the
\* reader, minimal encoding required, reads that field as Definite of the
\* length and consumes the field and no more; and every field the reader
\* accepts with a value, minimal encoding required, is the canonical field
\* of that value.
C27_CanonicalLength ==
    /\ (target = "length" /\ src[1] = "length" /\ phase \in {"input", "done"})
       => data = CanonicalLength(src[2]) \o src[3]
    /\ (target = "length" /\ src[1] = "length" /\ phase = "done")
       => /\ result.err = Ok
          /\ result.length = Definite(U64From(src[2]))
          /\ result.data.lo = Len(CanonicalLength(src[2]))
    /\ (target = "length" /\ src[1] = "field" /\ phase = "done"
        /\ result.err = Ok /\ result.length.kind = "Definite")
       => /\ SubSeq(data, 1, result.data.lo)
             = CanonicalField(result.length.length)
          /\ U64IsSmall(result.length.length)
             => CanonicalField(result.length.length)
                = CanonicalLength(U64ToNat(result.length.length))

\* The length 65536 has been written as 83 01 00 00 and read back with two
\* bytes left behind it, and the field 81 80 drawn has been read as 128.
C27_Witness ==
    /\ target = "length" /\ phase = "done"
    /\ \/ /\ src = <<"length", 65536, <<255, 1>>>>
          /\ data = <<131, 1, 0, 0, 255, 1>>
          /\ result.length = Definite(U64From(65536))
          /\ result.data.lo = 4
       \/ /\ src[1] = "field"
          /\ data \in {<<129, 128>> \o t : t \in OctetStrings(FieldOctets, 2)}
          /\ result.err = Ok
          /\ result.length = Definite(U64From(128))

----------------------------------------------------------------------------
(* The invariant of ASN1BitString::new on the values decoded               *)

\* C28: every ASN1BitString that a decode returns, under DER or BER, from
\* the primitive or the constructed form, has at most 7 unused bits, and
\* no unused bits when it has no data bytes.
C28_BitStringInvariant ==
    (target = "ASN1BitString" /\ phase = "decoded" /\ result.err = Ok)
    => /\ result.value.padding_bits <= 7
       /\ result.value.bytes = <<>> => result.value.padding_bits = 0

----------------------------------------------------------------------------
(* The Serializer: nodes are appended to the buffer of a Serializer, each  *)
(* by one of its operations.  `out` is the buffer, `src` the last call     *)
(* made, `result` what it returned and `value` the number of calls made.   *)

\* What an operation of the Serializer returns, and the buffer it leaves.
Written(err, buffer) == [err |-> err, buffer |-> buffer]

\* A variant that puts the identifier into the buffer before it runs the
\* content writer; the buffer after a writer that fails distinguishes it.
append_primitive_node_eager(buffer, identifier, w) ==
    IF w.err # Ok
    THEN Written(w.err, buffer \o write_identifier(identifier, FALSE))
    ELSE Written(Ok, append_node(buffer, identifier, FALSE, w.bytes))

\* Serializer::append_primitive_node: the content writer w puts w.bytes
\* into a fresh vector and returns w.err.
append_primitive_node(buffer, identifier, w) ==
    IF w.err # Ok THEN Written(w.err, buffer)
    ELSE Written(Ok, append_node(buffer, identifier, FALSE, w.bytes))

\* A nested writer: it makes the calls of append_primitive_node listed on
\* the nested Serializer, each followed by ?, and returns err.
RECURSIVE nested_writer(_, _, _)
nested_writer(nested, calls, err) ==
    IF calls = <<>> THEN Written(err, nested)
    ELSE IF append_primitive_node(nested, Head(calls).identifier,
                                  Head(calls).writer).err # Ok
    THEN append_primitive_node(nested, Head(calls).identifier,
                               Head(calls).writer)
    ELSE nested_writer(append_primitive_node(nested, Head(calls).identifier,
                                             Head(calls).writer).buffer,
                       Tail(calls), err)

\* writer(&mut nested)?; then append_node with the bytes of nested.
after_writer(buffer, identifier, nested) ==
    IF nested.err # Ok THEN Written(nested.err, buffer)
    ELSE Written(Ok, append_node(buffer, identifier, TRUE, nested.buffer))

\* Serializer::append_constructed_node.
append_constructed_node(buffer, identifier, w) ==
    after_writer(buffer, identifier, nested_writer(<<>>, w.calls, w.err))

\* Serializer::write_sequence.
write_sequence(buffer, w) == append_constructed_node(buffer, SEQUENCE, w)

\* Serializer::serialize of a bool and of an ASN1Integer.
serialize(buffer, node) ==
    IF node.type = "bool"
    THEN append_primitive_node(buffer, BOOLEAN_ID,
             [bytes |-> IF node.flag THEN <<255>> ELSE <<0>>, err |-> Ok])
    ELSE append_primitive_node(buffer, INTEGER,
             [bytes |-> to_signed_bytes_be(node.number), err |-> Ok])

\* The most calls made on a Serializer.
MaxCalls == 2

\* The identifiers drawn for primitive and for constructed nodes; one has
\* the long form.
PrimitiveIdentifiers ==
    {INTEGER, OCTET_STRING, ASN1Identifier(U64From(31), ContextSpecific)}

ConstructedIdentifiers == {SET, ASN1Identifier(U64From(0), ContextSpecific)}

\* The content writers drawn: of no byte, of one, and of 128 bytes, which
\* take the long form of the length; each succeeds or fails.
ContentWriters ==
    [bytes : {<<>>, <<1>>, Repeat(<<7>>, 128)},
     err : {Ok, ASN1Error(ValueOutOfRange, 0)}]

\* The nested writers drawn: of no call, of one, of two, of a first call
\* that fails and of a second call that fails; each returns Ok or fails.
NestedCalls ==
    {<<>>,
     <<[identifier |-> INTEGER, writer |-> [bytes |-> <<5>>, err |-> Ok]]>>,
     <<[identifier |-> INTEGER, writer |-> [bytes |-> <<5>>, err |-> Ok]],
       [identifier |-> OCTET_STRING, writer |-> [bytes |-> <<>>, err |-> Ok]]>>,
     <<[identifier |-> OCTET_STRING,
        writer |-> [bytes |-> <<1>>, err |-> ASN1Error(InvalidASN1Object, 0)]],
       [identifier |-> INTEGER, writer |-> [bytes |-> <<5>>, err |-> Ok]]>>,
     <<[identifier |-> INTEGER, writer |-> [bytes |-> <<5>>, err |-> Ok]],
       [identifier |-> OCTET_STRING,
        writer |-> [bytes |-> <<1>>, err |-> ASN1Error(InvalidASN1Object, 0)]]>>}

NestedWriters == [calls : NestedCalls, err : {Ok, ASN1Error(ValueOutOfRange, 0)}]

\* The values drawn for serialize: a bool has a flag, an ASN1Integer a
\* number.
SerNodes ==
    {[type |-> "bool", flag |-> b, number |-> 0] : b \in {TRUE, FALSE}}
    \cup {[type |-> "integer", flag |-> FALSE, number |-> v] : v \in {5, 128, -1}}

\* Serializer::new().
InitSer ==
    /\ target = "serializer"
    /\ src = <<"new">>
    /\ out = <<>>
    /\ value = 0
    /\ result = Ok
    /\ data = <<>>
    /\ phase = "serializer"
    /\ rules = "none"

AppendPrimitive ==
    /\ target = "serializer" /\ value < MaxCalls
    /\ \E id \in PrimitiveIdentifiers, w \in ContentWriters :
          /\ src' = <<"append_primitive_node", id, w>>
          /\ result' = append_primitive_node(out, id, w).err
          /\ out' = append_primitive_node(out, id, w).buffer
    /\ value' = value + 1
    /\ UNCHANGED <<data, phase, rules, target>>

AppendConstructed ==
    /\ target = "serializer" /\ value < MaxCalls
    /\ \E id \in ConstructedIdentifiers, w \in NestedWriters :
          /\ src' = <<"append_constructed_node", id, w>>
          /\ result' = append_constructed_node(out, id, w).err
          /\ out' = append_constructed_node(out, id, w).buffer
    /\ value' = value + 1
    /\ UNCHANGED <<data, phase, rules, target>>

WriteSequence ==
    /\ target = "serializer" /\ value < MaxCalls
    /\ \E w \in NestedWriters :
          /\ src' = <<"write_sequence", SEQUENCE, w>>
          /\ result' = write_sequence(out, w).err
          /\ out' = write_sequence(out, w).buffer
    /\ value' = value + 1
    /\ UNCHANGED <<data, phase, rules, target>>

Serialize ==
    /\ target = "serializer" /\ value < MaxCalls
    /\ \E node \in SerNodes :
          /\ src' = <<"serialize", node>>
          /\ result' = serialize(out, node).err
          /\ out' = serialize(out, node).buffer
    /\ value' = value + 1
    /\ UNCHANGED <<data, phase, rules, target>>

NextSer == AppendPrimitive \/ AppendConstructed \/ WriteSequence \/ Serialize

SpecSer == InitSer /\ [][NextSer]_vars

\* The identifier octets of an identifier drawn: one octet of the class,
\* the form and the tag number, or the tag number 31 in an octet behind it.
IdentifierOctets(identifier, constructed) ==
    <<(CASE identifier.tag_class = Universal -> 0
         [] identifier.tag_class = Application -> 64
         [] identifier.tag_class = ContextSpecific -> 128
         [] identifier.tag_class = Private -> 192)
      + (IF constructed THEN 32 ELSE 0)
      + (IF identifier.tag_number[8] < 31 THEN identifier.tag_number[8] ELSE 31)>>
    \o (IF identifier.tag_number[8] < 31 THEN <<>> ELSE <<identifier.tag_number[8]>>)

\* A complete TLV: the identifier, the DER length of the content, the
\* content.
CompleteTlv(identifier, constructed, content) ==
    IdentifierOctets(identifier, constructed)
    \o CanonicalLength(Len(content)) \o content

\* The error of the first call of a nested writer that fails, or the
\* error the writer returns.
RECURSIVE WriterError(_, _)
WriterError(calls, err) ==
    IF calls = <<>> THEN err
    ELSE IF Head(calls).writer.err # Ok THEN Head(calls).writer.err
    ELSE WriterError(Tail(calls), err)

\* The TLVs of the calls of a nested writer, one after the other.
RECURSIVE NestedContent(_)
NestedContent(calls) ==
    IF calls = <<>> THEN <<>>
    ELSE CompleteTlv(Head(calls).identifier, FALSE, Head(calls).writer.bytes)
         \o NestedContent(Tail(calls))

\* The error that the call c returns.
CallError(c) ==
    CASE c[1] = "append_primitive_node" -> c[3].err
      [] c[1] \in {"append_constructed_node", "write_sequence"} ->
           WriterError(c[3].calls, c[3].err)
      [] c[1] = "serialize" -> Ok

\* The TLV that the call c appends when it succeeds.
CallTlv(c) ==
    CASE c[1] = "append_primitive_node" -> CompleteTlv(c[2], FALSE, c[3].bytes)
      [] c[1] \in {"append_constructed_node", "write_sequence"} ->
           CompleteTlv(c[2], TRUE, NestedContent(c[3].calls))
      [] c[1] = "serialize" ->
           (CASE c[2].type = "bool" /\ c[2].flag -> <<1, 1, 255>>
              [] c[2].type = "bool" /\ ~c[2].flag -> <<1, 1, 0>>
              [] c[2].type = "integer" /\ c[2].number = 5 -> <<2, 1, 5>>
              [] c[2].type = "integer" /\ c[2].number = 128 -> <<2, 2, 0, 128>>
              [] c[2].type = "integer" /\ c[2].number = -1 -> <<2, 1, 255>>)

\* C29: every operation of a Serializer that succeeds appends one complete
\* TLV behind the bytes already in the buffer, and an operation whose
\* content writer or nested writer fails returns the error and leaves the
\* buffer as it was; the bytes appended earlier are never changed.
C29_Serializer ==
    [][target = "serializer" =>
          /\ result' = CallError(src')
          /\ out' = (IF CallError(src') # Ok THEN out ELSE out \o CallTlv(src'))]_vars

\* Behind a first node, a write_sequence whose nested writer failed after
\* its first call has left the buffer as it was; and behind a first node,
\* a SEQUENCE of two nodes has been appended.
C29_Witness ==
    /\ target = "serializer" /\ value = 2
    /\ \/ /\ src[1] = "write_sequence"
          /\ Len(src[3].calls) = 2 /\ src[3].calls[2].writer.err # Ok
          /\ result = ASN1Error(InvalidASN1Object, 0)
          /\ out = <<2, 1, 5>>
       \/ /\ src[1] = "write_sequence"
          /\ result = Ok
          /\ out = <<1, 1, 255, 48, 5, 2, 1, 5, 4, 0>>
----------------------------------------------------------------------------
(* The arithmetic of ASN1ObjectIdentifier::new                             *)

\* The nine octets of first * 40 + second, computed without a limit.
ExactFirstValue(components) ==
    <<U64Columns(components[2], 1, U64ToNat(components[1]) * 40, 1).carry>>
    \o U64Columns(components[2], 1, U64ToNat(components[1]) * 40, 1).limbs

\* C30: for every component list that passes the validation of new, new
\* returns without a panic and the first sub-identifier it has written is
\* the exact value first * 40 + second, not that value modulo 2^64.
C30_NoOverflow ==
    (phase = "constructed" /\ Len(src[2]) >= 2
     /\ ~U64Greater(src[2][1], 2)
     /\ ~(U64Less(src[2][1], 2) /\ U64Greater(src[2][2], 39)))
    => /\ result.err = Ok
       /\ read_oid_subidentifier(result.value).err = Ok
       /\ <<0>> \o read_oid_subidentifier(result.value).value
          = ExactFirstValue(src[2])

====
